---- MODULE Spec2Model ----
(***************************************************************************)
(* MedAssist-Edge: the structured-output extraction of the three           *)
(* LLM-backed agents (SOAP structuring, differential diagnosis, patient    *)
(* explanation).  A raw model completion is normalized, pushed through a   *)
(* cascade of JSON recovery strategies and turned into a typed record.     *)
(*                                                                         *)
(* Text is a sequence of tokens.  A token is one character, or a lexeme    *)
(* that none of the scanned patterns splits: TAG is one whole thinking     *)
(* delimiter (a match of <unused\d+>), "json", "null", "thought" and the   *)
(* schema keys are whole words.                                            *)
(*                                                                         *)
(* The guideline agent calls no model: it classifies the lines of the      *)
(* retrieved passages and aggregates the candidates (GuidelineSpec).  Its  *)
(* passages are sequences of single characters.  ConcurrentSpec has two    *)
(* requests in flight together, each with a guideline thread and a         *)
(* patient-explanation thread, writing the dump files of the process.      *)
(* AuditSpec has the analyze handlers of the requests and the pending      *)
(* table and log of the audit logger.                                      *)
(***************************************************************************)
EXTENDS Integers, Sequences, FiniteSets, TLC

VARIABLES task, raw, pc, stripped, text, tried, parsed, via, out, dump

\* the guideline agent: its inputs, the locals of run and of _parse_chunk,
\* the record returned
VARIABLES gpc, conditions, retriever, chunks, sources, chunk_no, lines, line_no,
          current_category, skip_section, pending_bullet, entries, raw_entries,
          guidelines

\* the debug dump files under /tmp, shared by every request of the process
VARIABLES files

\* requests in flight together: what each was given, and the threads that run
\* its guideline task and its patient-explanation task
VARIABLES requests, threads

\* the audit logger and the analyze handlers: the handler of each request,
\* the pending table of the logger, and the records appended to the log file
VARIABLES analyze, pending, audit_log

agentvars == <<task, raw, pc, stripped, text, tried, parsed, via, out, dump>>

guidelinevars ==
    <<gpc, conditions, retriever, chunks, sources, chunk_no, lines, line_no,
      current_category, skip_section, pending_bullet, entries, raw_entries,
      guidelines>>

concurrentvars == <<requests, threads>>

auditvars == <<analyze, pending, audit_log>>

vars == <<agentvars, guidelinevars, files, concurrentvars, auditvars>>

----------------------------------------------------------------------------
(* Tokens *)

LB  == "{"
RB  == "}"
LK  == "["
RK  == "]"
QT  == "\""
BS  == "\\"
CM  == ","
CL  == ":"
\* one backtick character
BT  == "backtick"
SP  == " "
NL  == "\n"
DG  == "1"
TAG == "<unused94>"
JSON == "json"
NUL == "null"
THOUGHT == "thought"

----------------------------------------------------------------------------
(* Sequence helpers *)

\* Python slice s[a:b] with 1-based a and inclusive b
Slice(s, a, b) == IF a > b THEN <<>> ELSE SubSeq(s, a, b)

\* s[a:] with 1-based a
From(s, a) == Slice(s, a, Len(s))

\* str.find(c, start): the least index >= start holding c, 0 when none
Find(s, c, start) ==
    LET hits == {i \in start..Len(s) : s[i] = c}
    IN  IF hits = {} THEN 0 ELSE CHOOSE i \in hits : \A j \in hits : i <= j

\* the least index >= i of s whose character is outside chars, the index
\* after the end of s when there is none
SkipRun(s, i, chars) ==
    LET stops == {j \in i..Len(s) : s[j] \notin chars}
    IN  IF stops # {} THEN CHOOSE j \in stops : \A j2 \in stops : j <= j2
        ELSE IF i > Len(s) THEN i ELSE Len(s) + 1

\* the greatest index of s whose character is outside chars, 0 when none
LastOutside(s, chars) ==
    LET keep == {j \in 1..Len(s) : s[j] \notin chars}
    IN  IF keep = {} THEN 0 ELSE CHOOSE j \in keep : \A j2 \in keep : j2 <= j

\* json.decoder WHITESPACE.match(s, i).end(): the first index >= i holding no whitespace
SkipWs(s, i) == SkipRun(s, i, {SP, NL})

\* c * n: nothing for n <= 0
Repeat(c, n) == IF n <= 0 THEN <<>> ELSE [j \in 1..n |-> c]

----------------------------------------------------------------------------
(* JSON values, as json.loads builds them *)

JStr(cs)  == [k |-> "str",  v |-> cs]
JNum(ds)  == [k |-> "num",  v |-> ds]
JNull     == [k |-> "null", v |-> <<>>]
JArr(xs)  == [k |-> "arr",  v |-> xs]
\* a dict: its (key, value) pairs in insertion order, every key once
JObj(ps)  == [k |-> "obj",  v |-> ps]

\* d[key] = val on the pairs of a dict: a key already there keeps its place
Put(items, key, val) ==
    IF \E n \in 1..Len(items) : items[n].key = key
    THEN [n \in 1..Len(items) |->
            IF items[n].key = key THEN [key |-> key, val |-> val] ELSE items[n]]
    ELSE Append(items, [key |-> key, val |-> val])

\* a failed parse (json.JSONDecodeError)
Fail == [ok |-> FALSE, v |-> <<>>, i |-> 0]

Ok(val, next) == [ok |-> TRUE, v |-> val, i |-> next]

RECURSIVE ScanStr(_, _, _)
\* json.decoder.py_scanstring from the index after the opening quote: strict
\* mode rejects a literal control character; a backslash must start an escape
ScanStr(s, i, acc) ==
    IF i > Len(s) THEN Fail
    ELSE IF s[i] = QT THEN Ok(acc, i + 1)
    ELSE IF s[i] = NL THEN Fail
    ELSE IF s[i] = BS THEN
        IF i + 1 > Len(s) THEN Fail
        ELSE IF s[i + 1] \in {QT, BS} THEN ScanStr(s, i + 2, Append(acc, s[i + 1]))
        ELSE IF s[i + 1] = NUL THEN ScanStr(s, i + 2, acc \o <<NL, "ull">>)
        ELSE IF s[i + 1] = THOUGHT THEN ScanStr(s, i + 2, acc \o <<"\t", "hought">>)
        ELSE Fail
    ELSE ScanStr(s, i + 1, Append(acc, s[i]))

\* the end of the digit run starting at i
ScanDigits(s, i) == SkipRun(s, i, {DG})

RECURSIVE ParseVal(_, _), ObjLoop(_, _, _), ArrLoop(_, _, _)

\* json.scanner.py_make_scanner._scan_once at index i
ParseVal(s, i) ==
    IF i > Len(s) THEN Fail
    ELSE IF s[i] = QT THEN
        LET r == ScanStr(s, i + 1, <<>>)
        IN  IF r.ok THEN Ok(JStr(r.v), r.i) ELSE Fail
    ELSE IF s[i] = LB THEN
        LET j == SkipWs(s, i + 1)
        IN  IF j > Len(s) THEN Fail
            ELSE IF s[j] = RB THEN Ok(JObj(<<>>), j + 1)
            ELSE IF s[j] # QT THEN Fail
            ELSE ObjLoop(s, j, <<>>)
    ELSE IF s[i] = LK THEN
        LET j == SkipWs(s, i + 1)
        IN  IF j > Len(s) THEN Fail
            ELSE IF s[j] = RK THEN Ok(JArr(<<>>), j + 1)
            ELSE ArrLoop(s, j, <<>>)
    ELSE IF s[i] = NUL THEN Ok(JNull, i + 1)
    ELSE IF s[i] = DG THEN
        LET j == ScanDigits(s, i)
        IN  Ok(JNum(Slice(s, i, j - 1)), j)
    ELSE Fail

\* json.decoder.JSONObject: the pair loop, s[j] being the opening quote of the key;
\* a repeated key keeps its last value
ObjLoop(s, j, f) ==
    LET key == ScanStr(s, j + 1, <<>>)
    IN  IF ~key.ok THEN Fail
        ELSE
        LET j2 == SkipWs(s, key.i)
        IN  IF j2 > Len(s) \/ s[j2] # CL THEN Fail
            ELSE
            LET val == ParseVal(s, SkipWs(s, j2 + 1))
            IN  IF ~val.ok THEN Fail
                ELSE
                LET j4 == SkipWs(s, val.i)
                    f2 == Put(f, key.v, val.v)
                IN  IF j4 > Len(s) THEN Fail
                    ELSE IF s[j4] = RB THEN Ok(JObj(f2), j4 + 1)
                    ELSE IF s[j4] = CM THEN
                        LET j5 == SkipWs(s, j4 + 1)
                        IN  IF j5 <= Len(s) /\ s[j5] = QT
                            THEN ObjLoop(s, j5, f2)
                            ELSE Fail
                    ELSE Fail

\* json.decoder.JSONArray: the element loop
ArrLoop(s, j, xs) ==
    LET val == ParseVal(s, j)
    IN  IF ~val.ok THEN Fail
        ELSE
        LET j2 == SkipWs(s, val.i)
            xs2 == Append(xs, val.v)
        IN  IF j2 > Len(s) THEN Fail
            ELSE IF s[j2] = RK THEN Ok(JArr(xs2), j2 + 1)
            ELSE IF s[j2] = CM THEN ArrLoop(s, SkipWs(s, j2 + 1), xs2)
            ELSE Fail

\* json.loads(s): one value, whitespace around it, nothing else
Loads(s) ==
    LET r == ParseVal(s, SkipWs(s, 1))
    IN  IF ~r.ok THEN Fail
        ELSE IF SkipWs(s, r.i) # Len(s) + 1 THEN Fail
        ELSE r

\* the index of key among the pairs of a dict, 0 when absent
KeyIndex(items, key) ==
    LET hits == {n \in 1..Len(items) : items[n].key = key}
    IN  IF hits = {} THEN 0 ELSE CHOOSE n \in hits : TRUE

\* key in d, for a dict d
HasKey(d, key) == KeyIndex(d.v, key) # 0

\* d.get(key, dflt), for a dict d
Get(d, key, dflt) == IF HasKey(d, key) THEN d.v[KeyIndex(d.v, key)].val ELSE dflt

RECURSIVE JEq(_, _)
\* Python == on two parsed values: kinds first, then contents (a dict compares
\* by key set and per-key value, whatever the order the keys were written in)
JEq(a, b) ==
    /\ a.k = b.k
    /\ IF a.k = "obj" THEN
            /\ Len(a.v) = Len(b.v)
            /\ \A n \in 1..Len(a.v) :
                  /\ HasKey(b, a.v[n].key)
                  /\ JEq(a.v[n].val, Get(b, a.v[n].key, JNull))
       ELSE IF a.k = "arr" THEN
            /\ Len(a.v) = Len(b.v)
            /\ \A n \in 1..Len(a.v) : JEq(a.v[n], b.v[n])
       ELSE a.v = b.v

----------------------------------------------------------------------------
(* Normalization *)

RECURSIVE StripBlocks(_)
\* re.sub(r"<unused\d+>.*?<unused\d+>", "", text, flags=re.DOTALL): leftmost,
\* non-overlapping, each opening delimiter paired with the next delimiter
StripBlocks(s) ==
    LET i == Find(s, TAG, 1)
    IN  IF i = 0 THEN s
        ELSE LET j == Find(s, TAG, i + 1)
             IN  IF j = 0 THEN s
                 ELSE Slice(s, 1, i - 1) \o StripBlocks(From(s, j + 1))

\* a strip that drops the unclosed delimiter alone
StripThinkingBlocksKeepReasoning(s) ==
    LET t == StripBlocks(s)
        m == Find(t, TAG, 1)
    IN  IF m = 0 THEN t
        ELSE LET brace == Find(t, LB, m)
             IN  IF brace # 0 THEN From(t, m + 1) ELSE Slice(t, 1, m - 1)

\* _strip_thinking_blocks of the patient and SOAP agents
StripThinkingBlocks(s) ==
    LET t == StripBlocks(s)
        m == Find(t, TAG, 1)
    IN  IF m = 0 THEN t
        ELSE LET brace == Find(t, LB, m)
             IN  IF brace # 0 THEN From(t, brace) ELSE Slice(t, 1, m - 1)

\* re.sub at index i, st.next being the index the scan has reached and st.out
\* the text kept so far: a match of length > 0 ending before index e is
\* dropped (e = 0: no match at i), any other character is kept
SubStep(st, s, i, e) ==
    IF i < st.next THEN st
    ELSE IF e # 0 THEN [next |-> e, out |-> st.out]
    ELSE [next |-> i + 1, out |-> Append(st.out, s[i])]

SubStart == [next |-> 1, out |-> <<>>]

\* where a match of <unused\d+>thought\s* starting at i ends, 0 when none starts
ThoughtEnd(s, i) ==
    IF s[i] = TAG /\ i + 1 <= Len(s) /\ s[i + 1] = THOUGHT THEN SkipWs(s, i + 2) ELSE 0

RECURSIVE ThoughtOver(_, _, _, _)
\* the left-to-right scan of re.sub over the indices a..b, by halves
ThoughtOver(s, a, b, st) ==
    IF b < st.next \/ a > b THEN st
    ELSE IF a = b THEN SubStep(st, s, a, ThoughtEnd(s, a))
    ELSE ThoughtOver(s, (a + b) \div 2 + 1, b, ThoughtOver(s, a, (a + b) \div 2, st))

\* re.sub(r"<unused\d+>thought\s*", "", text)
StripTagThought(s) == ThoughtOver(s, 1, Len(s), SubStart).out

IsNotTag(c) == c # TAG

\* _strip_thinking_blocks of the DDx agent: the delimiters go, what they wrap stays
StripThinkingDdx(s) == SelectSeq(StripTagThought(s), IsNotTag)

\* where a match of the fence pattern starting at i ends, 0 when none starts:
\* three backticks, json if it follows, and with eatws the whitespace after
FenceEnd(s, i, eatws) ==
    IF i + 2 <= Len(s) /\ s[i] = BT /\ s[i + 1] = BT /\ s[i + 2] = BT THEN
        LET j == IF i + 3 <= Len(s) /\ s[i + 3] = JSON THEN i + 4 ELSE i + 3
        IN  IF eatws THEN SkipWs(s, j) ELSE j
    ELSE 0

RECURSIVE FenceOver(_, _, _, _, _)
\* the left-to-right scan of re.sub over the indices a..b, by halves
FenceOver(s, a, b, st, eatws) ==
    IF b < st.next \/ a > b THEN st
    ELSE IF a = b THEN SubStep(st, s, a, FenceEnd(s, a, eatws))
    ELSE FenceOver(s, (a + b) \div 2 + 1, b,
                   FenceOver(s, a, (a + b) \div 2, st, eatws), eatws)

\* re.sub(r"```(?:json)?\s*", "", text) when eatws, re.sub(r"```(?:json)?", "", text) otherwise
StripFences(s, eatws) == FenceOver(s, 1, Len(s), SubStart, eatws).out

LStrip(s) == From(s, SkipWs(s, 1))

RStrip(s) == Slice(s, 1, LastOutside(s, {SP, NL}))

\* str.strip()
Strip(s) == RStrip(LStrip(s))

\* str.rstrip of backticks
RStripBacktick(s) == Slice(s, 1, LastOutside(s, {BT}))

\* parse_response, the thinking-block step of each agent
StripThinking(t, s) ==
    IF t = "ddx" THEN StripThinkingDdx(s) ELSE StripThinkingBlocks(s)

\* parse_response, the fence step: re.sub(...).strip().rstrip("`").strip()
StripCodeFences(t, s) ==
    Strip(RStripBacktick(Strip(StripFences(s, t # "soap"))))

\* the normalized text an agent hands to its parsers
Normalize(t, s) == StripCodeFences(t, StripThinking(t, s))

----------------------------------------------------------------------------
(* Candidate extraction.  None is the empty text: a candidate starts with a *)
(* brace, so it is never empty, and the callers test "if candidate".        *)

None == <<>>

\* a loop body that lets a quote after a backslash close the string
BalancedStepNoEscape(st, s, i) ==
    IF s[i] = QT THEN [st EXCEPT !.in_string = ~st.in_string]
    ELSE IF st.in_string THEN st
    ELSE IF s[i] = LB THEN [st EXCEPT !.depth = st.depth + 1]
    ELSE IF s[i] = RB THEN
        [st EXCEPT !.depth = st.depth - 1, !.end = IF st.depth - 1 = 0 THEN i ELSE 0]
    ELSE st

\* the body of the scanning loop of _extract_json_object at index i; st.end
\* is the index where the loop has returned, 0 while it runs
BalancedStep(st, s, i) ==
    IF st.escape_next THEN [st EXCEPT !.escape_next = FALSE]
    ELSE IF s[i] = BS /\ st.in_string THEN [st EXCEPT !.escape_next = TRUE]
    ELSE IF s[i] = QT THEN [st EXCEPT !.in_string = ~st.in_string]
    ELSE IF st.in_string THEN st
    ELSE IF s[i] = LB THEN [st EXCEPT !.depth = st.depth + 1]
    ELSE IF s[i] = RB THEN
        [st EXCEPT !.depth = st.depth - 1, !.end = IF st.depth - 1 = 0 THEN i ELSE 0]
    ELSE st

RECURSIVE BalancedOver(_, _, _, _)
\* the loop over the indices a..b, by halves, stopping where it has returned
BalancedOver(s, a, b, st) ==
    IF st.end # 0 \/ a > b THEN st
    ELSE IF a = b THEN BalancedStep(st, s, a)
    ELSE BalancedOver(s, (a + b) \div 2 + 1, b, BalancedOver(s, a, (a + b) \div 2, st))

\* the scanning loop of _extract_json_object from start: the index where depth
\* returns to zero, 0 when the text ends first
BalancedEnd(s, start) ==
    BalancedOver(s, start, Len(s),
                 [depth |-> 0, in_string |-> FALSE, escape_next |-> FALSE, end |-> 0]).end

\* the balanced span starting at start, None when there is none
SpanFrom(s, start) ==
    LET e == BalancedEnd(s, start)
    IN  IF e = 0 THEN None ELSE Slice(s, start, e)

\* _extract_json_object
ExtractJsonObject(s) ==
    LET start == Find(s, LB, 1)
    IN  IF start = 0 THEN None ELSE SpanFrom(s, start)

\* _extract_json_from_last_brace: the brace positions from the last to the
\* first, the first of them that starts a balanced span wins
ExtractJsonFromLastBrace(s) ==
    LET positions == {p \in 1..Len(s) : s[p] = LB}
        balanced == {p \in positions : SpanFrom(s, p) # None}
    IN  IF balanced = {} THEN None
        ELSE SpanFrom(s, CHOOSE p \in balanced : \A q \in balanced : q <= p)

\* re.search(r"\{[\s\S]+\}", text) of the SOAP agent: from the first opening
\* brace to the last closing brace, at least one character between them
GreedyBraceSpan(s) ==
    LET i == Find(s, LB, 1)
        closers == {j \in 1..Len(s) : s[j] = RB /\ j >= i + 2}
    IN  IF i = 0 \/ closers = {} THEN None
        ELSE Slice(s, i, CHOOSE j \in closers : \A j2 \in closers : j2 <= j)

\* the body of the counting loop of _repair_truncated_json for character ch
RepairStep(st, ch) ==
    IF st.escape_next THEN [st EXCEPT !.escape_next = FALSE]
    ELSE IF ch = BS /\ st.in_string THEN [st EXCEPT !.escape_next = TRUE]
    ELSE IF ch = QT THEN [st EXCEPT !.in_string = ~st.in_string]
    ELSE IF st.in_string THEN st
    ELSE IF ch = LB THEN [st EXCEPT !.depth_brace = st.depth_brace + 1]
    ELSE IF ch = RB THEN [st EXCEPT !.depth_brace = st.depth_brace - 1]
    ELSE IF ch = LK THEN [st EXCEPT !.depth_bracket = st.depth_bracket + 1]
    ELSE IF ch = RK THEN [st EXCEPT !.depth_bracket = st.depth_bracket - 1]
    ELSE st

RECURSIVE RepairOver(_, _, _, _)
\* the loop over the indices a..b of the snippet, by halves
RepairOver(s, a, b, st) ==
    IF a > b THEN st
    ELSE IF a = b THEN RepairStep(st, s[a])
    ELSE LET left == RepairOver(s, a, (a + b) \div 2, st)
         IN  IF left.escape_next
             THEN RepairOver(s, (a + b) \div 2 + 2, b, [left EXCEPT !.escape_next = FALSE])
             ELSE RepairOver(s, (a + b) \div 2 + 1, b, left)

ScanStart == [depth_brace |-> 0, depth_bracket |-> 0, in_string |-> FALSE, escape_next |-> FALSE]

\* the counting loop of _repair_truncated_json over the whole snippet
RepairScan(s) == RepairOver(s, 1, Len(s), ScanStart)

\* a repair that closes the braces before the brackets and no string
RepairClosingBracesFirst(st) ==
    Repeat(RB, st.depth_brace) \o Repeat(RK, st.depth_bracket)

\* closing of _repair_truncated_json: quote, then brackets, then braces
RepairClosing(st) ==
    (IF st.in_string THEN <<QT>> ELSE <<>>)
        \o Repeat(RK, st.depth_bracket) \o Repeat(RB, st.depth_brace)

\* _repair_truncated_json
RepairTruncatedJson(s) ==
    LET start == Find(s, LB, 1)
    IN  IF start = 0 THEN None
        ELSE LET snippet == From(s, start)
                 st == RepairScan(snippet)
             IN  IF st.depth_brace = 0 /\ st.depth_bracket = 0 THEN None
                 ELSE snippet \o RepairClosing(st)

----------------------------------------------------------------------------
(* Python conversions used when the typed record is built *)

RECURSIVE Concat(_, _)
\* sep.join(parts)
Concat(sep, parts) ==
    IF parts = <<>> THEN <<>>
    ELSE IF Len(parts) = 1 THEN parts[1]
    ELSE parts[1] \o sep \o Concat(sep, Tail(parts))

\* a slice that keeps the last n items
TakeLast(s, n) == IF Len(s) <= n THEN s ELSE From(s, Len(s) - n + 1)

\* s[:n]
Take(s, n) == Slice(s, 1, IF Len(s) < n THEN Len(s) ELSE n)

\* bool(v): empty text, empty containers and None are falsy (a number of the
\* alphabet is a run of the digit 1, never zero)
Truthy(v) ==
    IF v.k = "null" THEN FALSE
    ELSE IF v.k = "num" THEN TRUE
    ELSE v.v # <<>>

RECURSIVE EscapeRepr(_)
\* the body of repr(str): backslash doubled, control characters escaped
EscapeRepr(cs) ==
    IF cs = <<>> THEN <<>>
    ELSE (IF cs[1] = BS THEN <<BS, BS>>
          ELSE IF cs[1] = NL THEN <<BS, "n">>
          ELSE IF cs[1] = "\t" THEN <<BS, "t">>
          ELSE <<cs[1]>>) \o EscapeRepr(Tail(cs))

RECURSIVE Repr(_)
\* repr(v)
Repr(v) ==
    IF v.k = "str" THEN <<"'">> \o EscapeRepr(v.v) \o <<"'">>
    ELSE IF v.k = "num" THEN v.v
    ELSE IF v.k = "null" THEN <<"None">>
    ELSE IF v.k = "arr" THEN
        <<LK>> \o Concat(<<CM, SP>>, [n \in 1..Len(v.v) |-> Repr(v.v[n])]) \o <<RK>>
    ELSE
        <<LB>> \o Concat(<<CM, SP>>,
                    [n \in 1..Len(v.v) |->
                        Repr(JStr(v.v[n].key)) \o <<CL, SP>> \o Repr(v.v[n].val)])
             \o <<RB>>

\* str(v)
PyStr(v) == IF v.k = "str" THEN v.v ELSE Repr(v)

----------------------------------------------------------------------------
(* Schemas, defaults and the typed records *)

\* the hard cap of the diagnoses list and of key_points
Cap == 5

\* a schema key or a fixed text, as one lexeme
K(word) == <<word>>

Pair(word, val) == [key |-> K(word), val |-> val]

\* a call that ended in an exception
Raised(err) == [status |-> "error", err |-> err, rec |-> JNull]

\* a typed record that passed validation
Built(pairs) == [status |-> "ok", err |-> "none", rec |-> JObj(pairs)]

\* nothing returned yet
NoOutcome == [status |-> "none", err |-> "none", rec |-> JNull]

SoapFields == <<"subjective", "objective", "assessment", "plan_suggestions">>
DdxFields == <<"diagnoses", "reasoning_summary">>
EntryFields == <<"rank", "condition", "likelihood", "supporting_features", "against_features">>
PatientFields == <<"summary", "key_points", "next_steps_suggestion">>

\* the fields of the record each task returns, raw apart
Fields(t) ==
    IF t = "soap" THEN SoapFields ELSE IF t = "ddx" THEN DdxFields ELSE PatientFields

SoapParseError == JStr(K("Parse error - review raw output."))
SoapNotDocumented == JStr(K("Not documented."))
SoapRefused == JStr(K("[Refused]"))
DdxParseError == JStr(K("Parsing failed - review raw output."))
DdxUnavailable == JStr(K("Unavailable."))
PatientNoSummary == JStr(K("A summary could not be generated. Please speak directly with your doctor."))
PatientNoPoints == JStr(K("Please consult your healthcare provider for further information."))
PatientNoSteps == JStr(K("Please discuss your results and next steps with your doctor."))
PatientSummaryDefault == JStr(K("Summary unavailable."))
PatientStepsDefault == JStr(K("Please speak with your doctor about your results and next steps."))

\* the dict parse_response returns when every strategy failed
FallbackDict(t) ==
    IF t = "soap" THEN
        JObj([n \in 1..Len(SoapFields) |-> Pair(SoapFields[n], SoapParseError)])
    ELSE IF t = "ddx" THEN
        JObj(<<Pair("diagnoses", JArr(<<>>)), Pair("reasoning_summary", DdxParseError)>>)
    ELSE
        JObj(<<Pair("summary", PatientNoSummary),
               Pair("key_points", JArr(<<PatientNoPoints>>)),
               Pair("next_steps_suggestion", PatientNoSteps)>>)

\* pydantic, a field declared str: a str passes, nothing else is coerced
ValidStr(v) == v.k = "str"

\* pydantic, a field declared List[str]
ValidStrList(xs) == \A n \in 1..Len(xs) : ValidStr(xs[n])

\* pydantic, a field declared int: an int passes, a str of digits is converted
ValidInt(v) ==
    \/ v.k = "num"
    \/ v.k = "str" /\ v.v # <<>> /\ \A n \in 1..Len(v.v) : v.v[n] \in {DG, "2", "3", "4", "5"}

AsInt(v) == JNum(v.v)

\* soap_agent._to_str
SoapToStr(v) ==
    IF v.k = "arr" THEN
        LET kept == SelectSeq(v.v, Truthy)
        IN  JStr(Concat(<<NL>>, [n \in 1..Len(kept) |-> Strip(PyStr(kept[n]))]))
    ELSE IF v.k = "str" THEN v
    ELSE IF v.k # "null" THEN JStr(PyStr(v))
    ELSE SoapNotDocumented

\* "error" in parsed, for a parsed value that supports the test
ContainsError(p) ==
    IF p.k = "obj" THEN HasKey(p, K("error"))
    ELSE IF p.k = "arr" THEN \E n \in 1..Len(p.v) : p.v[n].k = "str" /\ p.v[n].v = K("error")
    ELSE \E n \in 1..Len(p.v) : p.v[n] = "error"

\* soap_agent.run after parse_response
RunSoap(p, r) ==
    IF p.k \in {"num", "null"} THEN Raised("TypeError")
    ELSE IF p.k # "obj" THEN
        IF ContainsError(p) THEN Raised("TypeError") ELSE Raised("AttributeError")
    ELSE IF ContainsError(p) THEN
        IF ValidStr(Get(p, K("error"), JNull))
        THEN Built(<<Pair("subjective", SoapRefused), Pair("objective", SoapRefused),
                     Pair("assessment", SoapRefused),
                     Pair("plan_suggestions", Get(p, K("error"), JNull)),
                     Pair("raw", JStr(r))>>)
        ELSE Raised("ValidationError")
    ELSE Built([n \in 1..Len(SoapFields) |->
                    Pair(SoapFields[n], SoapToStr(Get(p, K(SoapFields[n]), SoapNotDocumented)))]
               \o <<Pair("raw", JStr(r))>>)

\* ddx_agent.run._to_str
DdxToStr(v) ==
    IF v.k = "arr" THEN JStr(Concat(<<";", SP>>, [n \in 1..Len(v.v) |-> PyStr(v.v[n])]))
    ELSE IF Truthy(v) THEN JStr(PyStr(v))
    ELSE JStr(<<>>)

\* len(entries) + 1, as the int it is
RankOf(n) == JNum(<<<<DG, "2", "3", "4", "5">>[n]>>)

RECURSIVE DdxEntries(_, _, _)
\* the loop of ddx_agent.run over the first Cap items: the entries built, or
\* the first exception
DdxEntries(items, n, built) ==
    IF n > Len(items) THEN [err |-> "none", entries |-> built]
    ELSE LET item == items[n]
         IN  IF item.k # "obj" THEN [err |-> "AttributeError", entries |-> built]
             ELSE LET rank == Get(item, K("rank"), RankOf(Len(built) + 1))
                      cond == Get(item, K("condition"), JStr(K("Unknown")))
                      like == Get(item, K("likelihood"), JStr(K("Low")))
                      sup  == DdxToStr(Get(item, K("supporting_features"), JStr(<<>>)))
                      ag   == DdxToStr(Get(item, K("against_features"), JStr(<<>>)))
                  IN  IF ValidInt(rank) /\ ValidStr(cond) /\ ValidStr(like)
                      THEN DdxEntries(items, n + 1,
                              Append(built,
                                  JObj(<<Pair("rank", AsInt(rank)), Pair("condition", cond),
                                         Pair("likelihood", like),
                                         Pair("supporting_features", sup),
                                         Pair("against_features", ag)>>)))
                      ELSE [err |-> "ValidationError", entries |-> built]

\* ddx_agent.run after parse_response
RunDdx(p, r) ==
    IF p.k # "obj" THEN Raised("AttributeError")
    ELSE LET d == Get(p, K("diagnoses"), JArr(<<>>))
         IN  IF d.k \in {"null", "num", "obj"} THEN Raised("TypeError")
             ELSE IF d.k = "str" /\ d.v # <<>> THEN Raised("AttributeError")
             ELSE LET items == IF d.k = "arr" THEN Take(d.v, Cap) ELSE <<>>
                      res == DdxEntries(items, 1, <<>>)
                      summary == Get(p, K("reasoning_summary"), DdxUnavailable)
                  IN  IF res.err # "none" THEN Raised(res.err)
                      ELSE IF ~ValidStr(summary) THEN Raised("ValidationError")
                      ELSE Built(<<Pair("diagnoses", JArr(res.entries)),
                                   Pair("reasoning_summary", summary),
                                   Pair("raw", JStr(r))>>)

\* run without the default of a missing summary
RunPatientNoDefault(p, r) ==
    IF p.k # "obj" THEN Raised("AttributeError")
    ELSE LET kp0 == Get(p, K("key_points"), JArr(<<>>))
             key_points == IF kp0.k = "arr" THEN kp0.v ELSE <<JStr(PyStr(kp0))>>
             capped == Take(key_points, Cap)
             summary == Get(p, K("summary"), JStr(<<>>))
             steps == Get(p, K("next_steps_suggestion"), PatientStepsDefault)
         IN  IF ValidStr(summary) /\ ValidStrList(capped) /\ ValidStr(steps)
             THEN Built(<<Pair("summary", summary), Pair("key_points", JArr(capped)),
                          Pair("next_steps_suggestion", steps), Pair("raw", JStr(r))>>)
             ELSE Raised("ValidationError")

\* patient_agent.run after parse_response
RunPatient(p, r) ==
    IF p.k # "obj" THEN Raised("AttributeError")
    ELSE LET kp0 == Get(p, K("key_points"), JArr(<<>>))
             key_points == IF kp0.k = "arr" THEN kp0.v ELSE <<JStr(PyStr(kp0))>>
             capped == Take(key_points, Cap)
             summary == Get(p, K("summary"), PatientSummaryDefault)
             steps == Get(p, K("next_steps_suggestion"), PatientStepsDefault)
         IN  IF ValidStr(summary) /\ ValidStrList(capped) /\ ValidStr(steps)
             THEN Built(<<Pair("summary", summary), Pair("key_points", JArr(capped)),
                          Pair("next_steps_suggestion", steps), Pair("raw", JStr(r))>>)
             ELSE Raised("ValidationError")

\* run of the task t once parse_response has returned p
RunAgent(t, p, r) ==
    IF t = "soap" THEN RunSoap(p, r)
    ELSE IF t = "ddx" THEN RunDdx(p, r)
    ELSE RunPatient(p, r)

----------------------------------------------------------------------------
(* The raw completions the model may return *)

\* bounds of the input families
MaxLen == 3
MaxItems == 2
MaxFields == 2
MaxList == 7

Tasks == {"soap", "ddx", "patient"}

Alphabet == {LB, RB, LK, QT, BS, CL, BT, SP, DG, TAG, "a"}

\* every text of at most MaxLen tokens
ShortTexts == UNION {[1..n -> Alphabet] : n \in 0..MaxLen}

StrText(cs) == <<QT>> \o cs \o <<QT>>

ListText(elems) == <<LK>> \o Concat(<<CM>>, elems) \o <<RK>>

ItemWords == <<"p1", "p2", "p3", "p4", "p5", "p6", "p7", "p8">>

\* ["p1", ..., "pn"]
WordList(n) == ListText([i \in 1..n |-> StrText(<<ItemWords[i]>>)])

\* the shapes a model gives a field: a string, a list of strings, null, a
\* number, an object, a list of other things
ValueTexts ==
    {StrText(<<"a">>), StrText(<<>>), <<NUL>>, <<DG>>, <<LB, RB>>,
     ListText(<<StrText(<<SP, "a">>), StrText(<<>>), <<NUL>>, <<DG>>>>)}
      \cup {WordList(n) : n \in 0..MaxItems}

Absent == <<>>

RECURSIVE FieldTexts(_, _, _)
\* the "key":value texts of the fields f gives a value, in key order
FieldTexts(keys, f, n) ==
    IF n > Len(keys) THEN <<>>
    ELSE (IF f[n] = Absent THEN <<>> ELSE <<StrText(K(keys[n])) \o <<CL>> \o f[n]>>)
            \o FieldTexts(keys, f, n + 1)

ObjText(keys, f) == <<LB>> \o Concat(<<CM>>, FieldTexts(keys, f, 1)) \o <<RB>>

\* the objects holding at most MaxFields of the keys, each with any shape
ObjTexts(keys, vals) ==
    {ObjText(keys, f) :
        f \in {g \in [1..Len(keys) -> vals \cup {Absent}] :
                  Cardinality({n \in 1..Len(keys) : g[n] # Absent}) <= MaxFields}}

\* one entry of the diagnoses list: an object with at most one deviating field
EntryTexts ==
    {ObjText(EntryFields, [n \in 1..Len(EntryFields) |-> IF n = m THEN v ELSE Absent]) :
        m \in 1..Len(EntryFields), v \in ValueTexts}

\* the diagnoses value: n plain entries after one entry of any shape
DiagnosesTexts ==
    {ListText(<<e>> \o [i \in 1..n |-> ObjText(EntryFields,
                            [m \in 1..Len(EntryFields) |->
                                IF m = 2 THEN StrText(<<ItemWords[i]>>) ELSE Absent])]) :
        e \in EntryTexts \cup {<<NUL>>, StrText(<<"a">>)}, n \in 0..MaxItems}

\* the objects a model answers a task with
SchemaTexts(t) ==
    IF t = "soap" THEN ObjTexts(SoapFields \o <<"error">>, ValueTexts)
    ELSE IF t = "patient" THEN ObjTexts(PatientFields, ValueTexts)
    ELSE ObjTexts(DdxFields, ValueTexts)
            \cup {ObjText(DdxFields, <<d, Absent>>) : d \in DiagnosesTexts}

\* a list of n items, the item at position odd being a number: strings for
\* key_points, entries naming a condition for diagnoses
LongList(t, n, odd) ==
    ListText([i \in 1..n |->
                IF i = odd THEN <<DG>>
                ELSE IF t = "patient" THEN StrText(<<ItemWords[i]>>)
                ELSE ObjText(EntryFields,
                        [m \in 1..Len(EntryFields) |->
                            IF m = 2 THEN StrText(<<ItemWords[i]>>) ELSE Absent])])

\* answers whose capped list holds up to MaxList items, all well-formed or
\* with one malformed item past the cap
CapTexts(t) ==
    IF t = "soap" THEN {}
    ELSE {ObjText(IF t = "patient" THEN PatientFields ELSE DdxFields,
                  IF t = "patient" THEN <<Absent, LongList(t, n, odd), Absent>>
                  ELSE <<LongList(t, n, odd), Absent>>) :
            n \in 0..MaxList, odd \in {0, Cap + 1}}

\* string contents that look like the artifacts normalization removes
OddContents ==
    {<<BT, BT, BT>>, <<BT, BT, BT, JSON, SP, "a">>, <<"a", BT>>, <<TAG>>,
     <<TAG, "a", TAG>>, <<LB>>, <<RB>>, <<BS, QT>>, <<BS, BS>>, <<SP, "a", SP>>}

\* {"summary": "see your doctor"}
ExampleObject ==
    <<LB, QT, "summary", QT, CL, SP, QT, "see", SP, "your", SP, "doctor", QT, RB>>

\* well-formed objects of any content
PlainObjects ==
    {<<LB, RB>>,
     ExampleObject,
     ObjText(<<"a">>, <<<<DG>>>>),
     ObjText(<<"a">>, <<ObjText(<<"a">>, <<StrText(<<"a">>)>>)>>),
     ObjText(<<"a">>, <<ListText(<<ObjText(<<"a">>, <<<<DG>>>>), <<DG>>>>)>>),
     ObjText(<<"a", "a">>, <<<<DG>>, <<NUL>>>>),
     <<LB, SP, QT, "a", QT, SP, CL, SP, DG, SP, RB>>}

OddObjects == {ObjText(<<"a">>, <<StrText(c)>>) : c \in OddContents}

Objects == PlainObjects \cup OddObjects

\* what a model writes between the thinking delimiters
Reasonings == {<<>>, <<THOUGHT, NL, "a", NL>>, <<"a", LB, "a">>, <<LB, "a", RB>>}

\* o after a complete thinking block
InThinkingBlock(o) == {<<TAG>> \o r \o <<TAG, NL>> \o o : r \in Reasonings}

\* o inside a code fence, with and without a language tag
InFence(o) ==
    {<<BT, BT, BT>> \o j \o <<NL>> \o o \o <<NL, BT, BT, BT>> : j \in {<<>>, <<JSON>>}}

\* an object inside a complete thinking block or a code fence, after prose,
\* before prose, after an unclosed delimiter, after another brace group,
\* between two brace groups
Wrapped ==
    UNION {InThinkingBlock(o) \cup InFence(o) : o \in Objects}
      \cup {<<"a", SP>> \o o : o \in Objects}
      \cup {o \o <<SP, "a">> : o \in Objects}
      \cup {<<"a", TAG>> \o r \o o : r \in Reasonings, o \in Objects}
      \cup {o \o <<LB, "a", RB>> : o \in Objects}
      \cup {<<LB, "a", RB>> \o o \o <<LB, "a">> : o \in Objects}
      \cup {<<LB, "a", RB>> \o o \o <<LB, "a", RB>> : o \in Objects}

\* every object cut off somewhere
Truncated == UNION {{Slice(o, 1, n) : n \in 1..Len(o)} : o \in Objects}

\* the completions a task is run on
Inputs(t) ==
    ShortTexts \cup Objects \cup Wrapped \cup Truncated \cup SchemaTexts(t) \cup CapTexts(t)

----------------------------------------------------------------------------
(* Guideline agent: characters and the regular expressions of its tables.  *)
(* A passage, a line and a recommendation are sequences of single          *)
(* characters.                                                             *)

Lowers == <<"a", "b", "c", "d", "e", "f", "g", "h", "i", "j", "k", "l", "m", "n", "o", "p", "q", "r", "s", "t", "u", "v", "w", "x", "y", "z">>

Uppers == <<"A", "B", "C", "D", "E", "F", "G", "H", "I", "J", "K", "L", "M", "N", "O", "P", "Q", "R", "S", "T", "U", "V", "W", "X", "Y", "Z">>

Digits == {"0", "1", "2", "3", "4", "5", "6", "7", "8", "9"}

IsLower(c) == \E n \in 1..Len(Lowers) : Lowers[n] = c

IsUpper(c) == \E n \in 1..Len(Uppers) : Uppers[n] = c

\* str.lower() of one character
LowerOf(c) ==
    IF IsUpper(c) THEN Lowers[CHOOSE n \in 1..Len(Uppers) : Uppers[n] = c] ELSE c

UpperOf(c) ==
    IF IsLower(c) THEN Uppers[CHOOSE n \in 1..Len(Lowers) : Lowers[n] = c] ELSE c

\* str.lower()
Lower(s) == [n \in 1..Len(s) |-> LowerOf(s[n])]

\* \w
IsWordChar(c) == IsLower(c) \/ IsUpper(c) \/ c \in Digits \/ c = "_"

\* \b at the gap before index i of s
WordBoundary(s, i) ==
    (i > 1 /\ i - 1 <= Len(s) /\ IsWordChar(s[i - 1])) # (i <= Len(s) /\ IsWordChar(s[i]))

\* one alternative of a pattern: a run of character classes, with \b before
\* it or after it where the pattern has one
Alt(pre, classes, post) == [pre |-> pre, classes |-> classes, post |-> post]

\* a literal under re.I: each letter in either case
Lit(word) == [n \in 1..Len(word) |-> {LowerOf(word[n]), UpperOf(word[n])}]

\* the dot: any character but the line break
AnyChar == {"any"}

\* c is in the class cls
InClass(c, cls) == IF cls = AnyChar THEN c # NL ELSE c \in cls

\* the alternative matches s at index i
MatchAt(alt, s, i) ==
    /\ i + Len(alt.classes) - 1 <= Len(s)
    /\ \A n \in 1..Len(alt.classes) : InClass(s[i + n - 1], alt.classes[n])
    /\ alt.pre => WordBoundary(s, i)
    /\ alt.post => WordBoundary(s, i + Len(alt.classes))

\* pattern.search(s) finds a match
Search(alts, s) ==
    \E a \in 1..Len(alts) : \E i \in 1..Len(s) : MatchAt(alts[a], s, i)

Plain(word) == Alt(FALSE, Lit(word), FALSE)

\* _HEADER_CATEGORY
HeaderCategory ==
    <<[cat |-> "Workup",
       pattern |-> <<Plain(<<"w", "o", "r", "k", "u", "p">>), Plain(<<"i", "n", "v", "e", "s", "t", "i", "g", "a", "t", "i", "o", "n">>), Plain(<<"s", "e", "r", "o", "l", "o", "g">>),
                     Plain(<<"s", "c", "r", "e", "e", "n">>), Plain(<<"b", "i", "o", "p", "s", "y">>), Plain(<<"b", "r", "o", "n", "c", "h", "o">>),
                     Plain(<<"e", "c", "h", "o", "c", "a", "r", "d">>)>>],
      [cat |-> "Management",
       pattern |-> <<Plain(<<"m", "a", "n", "a", "g", "e", "m", "e", "n", "t">>), Plain(<<"t", "r", "e", "a", "t", "m", "e", "n", "t">>), Plain(<<"t", "h", "e", "r", "a", "p", "y">>),
                     Plain(<<"t", "h", "e", "r", "a", "p", "e", "u", "t">>), Plain(<<"a", "n", "t", "i", "f", "i", "b", "r", "o", "t", "i", "c">>), Plain(<<"a", "n", "t", "i", "-", "f", "i", "b", "r", "o", "t", "i", "c">>),
                     Plain(<<"p", "h", "a", "r", "m", "a", "c", "o", "l", "o", "g">>), Plain(<<"p", "r", "e", "s", "c", "r", "i">>)>>],
      [cat |-> "Monitoring",
       pattern |-> <<Plain(<<"m", "o", "n", "i", "t", "o", "r">>), Plain(<<"s", "u", "r", "v", "e", "i", "l", "l", "a", "n", "c", "e">>), Plain(<<"s", "e", "r", "i", "a", "l">>),
                     Plain(<<"r", "e", "p", "e", "a", "t", " ", "p", "f", "t">>), Plain(<<"d", "l", "c", "o", " ", "e", "v", "e", "r", "y">>), Plain(<<"f", "v", "c", " ", "e", "v", "e", "r", "y">>)>>],
      [cat |-> "Follow-up",
       pattern |-> <<Plain(<<"f", "o", "l", "l", "o", "w", "u", "p">>),
                     Alt(FALSE, Lit(<<"f", "o", "l", "l", "o", "w">>) \o <<AnyChar>> \o Lit(<<"u", "p">>), FALSE),
                     Plain(<<"r", "e", "f", "e", "r", "r", "a", "l">>), Plain(<<"r", "e", "f", "e", "r", " ", "a", "l", "l">>),
                     Plain(<<"r", "e", "v", "i", "e", "w", " ", "a", "p", "p", "o", "i", "n", "t", "m", "e", "n", "t">>)>>]>>

\* _SKIP_SECTION
SkipSection ==
    <<Alt(TRUE, Lit(<<"d", "i", "a", "g", "n", "o", "s">>) \o <<{"i", "I", "e", "E"}>>, FALSE),
      Plain(<<"d", "i", "a", "g", "n", "o", "s", "t", "i", "c", " ", "c", "r", "i", "t", "e", "r", "i", "a">>),
      Alt(FALSE, Lit(<<"d", "e", "f", "i", "n", "i", "t", "i", "o", "n">>), TRUE),
      Plain(<<"k", "e", "y", " ", "h", "r", "c", "t", " ", "f", "e", "a", "t", "u", "r", "e", "s">>)>>

\* _CONFIDENCE_DIRECT
ConfidenceDirect ==
    <<Alt(TRUE, Lit(<<"r", "e", "c", "o", "m", "m", "e", "n", "d">>), FALSE), Plain(<<"i", "n", "d", "i", "c", "a", "t", "e", "d">>),
      Alt(FALSE, Lit(<<"s", "h", "o", "u", "l", "d">>), TRUE), Plain(<<"r", "e", "q", "u", "i", "r", "e", "d">>),
      Alt(FALSE, Lit(<<"m", "u", "s", "t">>), TRUE), Plain(<<"s", "t", "a", "n", "d", "a", "r", "d", " ", "o", "f", " ", "c", "a", "r", "e">>)>>

\* _CONFIDENCE_INFERRED
ConfidenceInferred ==
    <<Alt(TRUE, Lit(<<"s", "u", "g", "g", "e", "s", "t">>), FALSE), Plain(<<"c", "o", "n", "s", "i", "d", "e", "r">>),
      Alt(FALSE, Lit(<<"m", "a", "y">>), TRUE), Plain(<<"c", "o", "n", "d", "i", "t", "i", "o", "n", "a", "l">>),
      Plain(<<"o", "p", "t", "i", "o", "n", "a", "l">>), Alt(FALSE, Lit(<<"c", "o", "u", "l", "d">>), TRUE)>>

\* _INCOMPLETE: the text ends with a lowercase letter or a comma
Incomplete(s) == s # <<>> /\ (IsLower(s[Len(s)]) \/ s[Len(s)] = ",")

RECURSIVE CategoryFrom(_, _, _)
CategoryFrom(n, line, fallback) ==
    IF n > Len(HeaderCategory) THEN fallback
    ELSE IF Search(HeaderCategory[n].pattern, line) THEN HeaderCategory[n].cat
    ELSE CategoryFrom(n + 1, line, fallback)

\* _category_from_context
CategoryFromContext(line, fallback) == CategoryFrom(1, line, fallback)

----------------------------------------------------------------------------
(* Guideline agent: the passage classifier *)

\* s.startswith(prefix)
StartsWith(s, prefix) == Len(s) >= Len(prefix) /\ SubSeq(s, 1, Len(prefix)) = prefix

\* str.splitlines(): the lines between the line breaks, no empty line after
\* a final line break
SplitLines(s) ==
    LET breaks == {i \in 1..Len(s) : s[i] = NL}
        starts == {1} \cup {i + 1 : i \in breaks}
        begin(k) == CHOOSE i \in starts : Cardinality({j \in starts : j < i}) = k - 1
        end(k) == LET f == Find(s, NL, begin(k)) IN IF f = 0 THEN Len(s) ELSE f - 1
        count == IF s = <<>> THEN 0
                 ELSE IF s[Len(s)] = NL THEN Cardinality(breaks)
                 ELSE Cardinality(breaks) + 1
    IN  [k \in 1..count |-> Slice(s, begin(k), end(k))]

\* re.sub(r"\s+", " ", s): every run of whitespace becomes one space
CollapseWhitespace(s) ==
    LET ws(i) == s[i] \in {SP, NL}
        marks == [i \in 1..Len(s) |->
                    [c |-> IF ws(i) THEN SP ELSE s[i],
                     keep |-> i = 1 \/ ~ws(i) \/ ~ws(i - 1)]]
        kept == SelectSeq(marks, LAMBDA m : m.keep)
    IN  [i \in 1..Len(kept) |-> kept[i].c]

\* str.isupper(): a cased character is there and none is lowercase
IsUpperText(s) ==
    /\ \E i \in 1..Len(s) : IsUpper(s[i])
    /\ \A i \in 1..Len(s) : ~IsLower(s[i])

\* re.match(r"^\d+[\.\d]* [A-Z]", s)
NumberedHeader(s) ==
    LET i == SkipRun(s, 1, Digits)
        j == SkipRun(s, i, Digits \cup {"."})
    IN  i > 1 /\ j + 1 <= Len(s) /\ s[j] = SP /\ IsUpper(s[j + 1])

\* re.match(r"^#+\s+\S", s)
MarkdownHeader(s) ==
    LET i == SkipRun(s, 1, {"#"})
        j == SkipRun(s, i, {SP, NL})
    IN  i > 1 /\ j > i /\ j <= Len(s)

\* the length bounds of an all-capitals header line
HeaderMinLen == 4
HeaderMaxLen == 80

\* _parse_chunk, is_header
IsHeader(trimmed) ==
    \/ NumberedHeader(trimmed)
    \/ MarkdownHeader(trimmed)
    \/ IsUpperText(trimmed) /\ HeaderMinLen < Len(trimmed) /\ Len(trimmed) < HeaderMaxLen

\* a confidence check that tries the suggestion words first
ConfidenceInferredFirst(t) ==
    IF Search(ConfidenceInferred, t) THEN "Inferred"
    ELSE IF Search(ConfidenceDirect, t) THEN "Direct"
    ELSE "Low-evidence"

\* _confidence
Confidence(t) ==
    IF Search(ConfidenceDirect, t) THEN "Direct"
    ELSE IF Search(ConfidenceInferred, t) THEN "Inferred"
    ELSE "Low-evidence"

\* the file names _SOURCE_LABELS knows, and their citations
SampleRespiratory == <<"sample", "_", "respiratory", "_", "guidelines", ".txt">>
ConnectiveTissue == <<"connective", "_", "tissue", "_", "ild", "_", "guidelines", ".txt">>
SampleRespiratoryLabel == <<"ATS/ERS/JRS/ALAT IPF & Respiratory Guidelines (2022)">>
ConnectiveTissueLabel == <<"ATS/ERS CTD-ILD, BTS ILD Guidelines (2022-2024)">>

\* _label: the citation of a file name, a sequence of name tokens
Label(filename) ==
    LET slashes == {i \in 1..Len(filename) : filename[i] = "/"}
        last == IF slashes = {} THEN 0 ELSE CHOOSE i \in slashes : \A j \in slashes : j <= i
        base == From(filename, last + 1)
        spaced == [i \in 1..Len(base) |-> IF base[i] = "_" THEN SP ELSE base[i]]
    IN  IF base = SampleRespiratory THEN SampleRespiratoryLabel
        ELSE IF base = ConnectiveTissue THEN ConnectiveTissueLabel
        ELSE SelectSeq(spaced, LAMBDA tok : tok \notin {".txt", ".pdf"})

\* the shortest bullet text that is kept
MinBulletLen == 25

\* the classifier state at the start of a passage
StartState ==
    [current_category |-> "Management", skip_section |-> FALSE,
     pending_bullet |-> None, entries |-> <<>>]

\* a flush that emits also inside an excluded section
FlushIgnoringSkip(st, label) ==
    LET bullet == Strip(CollapseWhitespace(st.pending_bullet))
    IN  IF st.pending_bullet = None THEN st.entries
        ELSE IF Len(bullet) < MinBulletLen THEN st.entries
        ELSE IF Incomplete(bullet) THEN st.entries
        ELSE Append(st.entries,
                    [category |-> st.current_category, recommendation |-> bullet,
                     source |-> label, confidence |-> Confidence(bullet)])

\* _flush: the entries after the pending bullet is judged
Flush(st, label) ==
    LET bullet == Strip(CollapseWhitespace(st.pending_bullet))
    IN  IF st.pending_bullet = None THEN st.entries
        ELSE IF Len(bullet) < MinBulletLen THEN st.entries
        ELSE IF Incomplete(bullet) THEN st.entries
        ELSE IF st.skip_section THEN st.entries
        ELSE Append(st.entries,
                    [category |-> st.current_category, recommendation |-> bullet,
                     source |-> label, confidence |-> Confidence(bullet)])

\* a header that reclassifies before the pending bullet is flushed
OnHeaderFlushLast(st, trimmed, label) ==
    LET skip == Search(SkipSection, trimmed)
        cat == IF skip THEN st.current_category
               ELSE CategoryFromContext(trimmed, st.current_category)
    IN  [current_category |-> cat, skip_section |-> skip, pending_bullet |-> None,
         entries |-> Flush([st EXCEPT !.current_category = cat, !.skip_section = skip], label)]

\* _parse_chunk, a header line
OnHeader(st, trimmed, label) ==
    LET skip == Search(SkipSection, trimmed)
    IN  [current_category |-> IF skip THEN st.current_category
                              ELSE CategoryFromContext(trimmed, st.current_category),
         skip_section |-> skip,
         pending_bullet |-> None,
         entries |-> Flush(st, label)]

\* _parse_chunk, a bullet line
OnBullet(st, trimmed, label) ==
    [st EXCEPT !.entries = Flush(st, label), !.pending_bullet = Strip(From(trimmed, 3))]

\* _parse_chunk, an indented line after a bullet
OnContinuation(st, trimmed) ==
    [st EXCEPT !.pending_bullet = @ \o <<SP>> \o trimmed]

\* a paragraph line that hints at the category while a bullet is pending
OnParagraphAlways(st, trimmed) ==
    [st EXCEPT !.current_category = CategoryFromContext(trimmed, @)]

\* _parse_chunk, any other line: a category hint unless a bullet is pending
OnParagraph(st, trimmed) ==
    IF st.pending_bullet = None
    THEN [st EXCEPT !.current_category = CategoryFromContext(trimmed, @)]
    ELSE st

\* branch conditions that test for the bullet marker before the header
LineKindBulletFirst(st, line) ==
    LET trimmed == Strip(line)
    IN  IF trimmed = <<>> THEN "blank"
        ELSE IF StartsWith(trimmed, <<"-", SP>>) THEN "bullet"
        ELSE IF IsHeader(trimmed) THEN "header"
        ELSE IF st.pending_bullet # None /\ StartsWith(line, <<SP, SP>>) THEN "continuation"
        ELSE "paragraph"

\* branch conditions that take a line beginning with one space for a
\* continuation
LineKindAnyIndent(st, line) ==
    LET trimmed == Strip(line)
    IN  IF trimmed = <<>> THEN "blank"
        ELSE IF IsHeader(trimmed) THEN "header"
        ELSE IF StartsWith(trimmed, <<"-", SP>>) THEN "bullet"
        ELSE IF st.pending_bullet # None /\ StartsWith(line, <<SP>>) THEN "continuation"
        ELSE "paragraph"

\* which branch of the loop body a line takes
LineKind(st, line) ==
    LET trimmed == Strip(line)
    IN  IF trimmed = <<>> THEN "blank"
        ELSE IF IsHeader(trimmed) THEN "header"
        ELSE IF StartsWith(trimmed, <<"-", SP>>) THEN "bullet"
        ELSE IF st.pending_bullet # None /\ StartsWith(line, <<SP, SP>>) THEN "continuation"
        ELSE "paragraph"

\* _parse_chunk, the loop body
ParseLine(st, line, label) ==
    LET trimmed == Strip(line)
        kind == LineKind(st, line)
    IN  IF kind = "blank" THEN st
        ELSE IF kind = "header" THEN OnHeader(st, trimmed, label)
        ELSE IF kind = "bullet" THEN OnBullet(st, trimmed, label)
        ELSE IF kind = "continuation" THEN OnContinuation(st, trimmed)
        ELSE OnParagraph(st, trimmed)

RECURSIVE ParseLines(_, _, _, _)
ParseLines(st, ls, n, label) ==
    IF n > Len(ls) THEN st ELSE ParseLines(ParseLine(st, ls[n], label), ls, n + 1, label)

\* chunk.get("source", "Unknown")
SourceOf(chunk) == IF chunk.source = None THEN <<"Unknown">> ELSE chunk.source

\* _parse_chunk
ParseChunk(chunk) ==
    LET label == Label(SourceOf(chunk))
    IN  Flush(ParseLines(StartState, SplitLines(chunk.text), 1, label), label)

----------------------------------------------------------------------------
(* Guideline agent: run, the aggregation of the passages *)

\* the fixed words of the retrieval query
QueryWords ==
    <<" management treatment monitoring guidelines recommend anti-fibrotic immunosuppression workup follow-up">>

\* how many diagnoses the query names
QueryConditions == 3

\* _rag_query
RagQuery(conds) == Concat(<<SP>>, Take(conds, QueryConditions)) \o QueryWords

\* no retriever is configured
NoRetriever == [configured |-> FALSE, returns |-> <<>>]

\* a retriever whose retrieve returns the passages ps
Retriever(ps) == [configured |-> TRUE, returns |-> ps]

\* the length of the text a recommendation is compared by
KeyLen == 80

\* the key of an entry that keeps the case
KeyCaseSensitive(e) == Take(e.recommendation, KeyLen)

\* run: e["recommendation"][:80].lower()
Key(e) == Lower(Take(e.recommendation, KeyLen))

RECURSIVE Dedupe(_, _, _, _)
\* run: the loop that keeps the first entry of each key
Dedupe(es, n, seen, unique) ==
    IF n > Len(es) THEN unique
    ELSE IF Key(es[n]) \in seen THEN Dedupe(es, n + 1, seen, unique)
    ELSE Dedupe(es, n + 1, seen \cup {Key(es[n])}, Append(unique, es[n]))

Unique(es) == Dedupe(es, 1, {}, <<>>)

\* the labels of the passages that name a source
ChunkLabels(cs) == {Label(cs[n].source) : n \in {m \in 1..Len(cs) : cs[m].source # None}}

\* list(a set): the items, each once, in an order the hash seed decides
ListsOf(S) == {f \in [1..Cardinality(S) -> S] : \A x \in S : \E n \in DOMAIN f : f[n] = x}

RECURSIVE DecimalText(_)
\* str(n) for n >= 0
DecimalText(n) ==
    LET digit == <<"0", "1", "2", "3", "4", "5", "6", "7", "8", "9">>[(n % 10) + 1]
    IN  IF n < 10 THEN <<digit>> ELSE Append(DecimalText(n \div 10), digit)

\* the decimals a score is written with
ScoreDecimals == 3

\* format(score, ".3f") of a score written with at most three decimals
FormatScore(score) ==
    LET dot == Find(score, ".", 1)
        decimals == IF dot = 0 THEN 0 ELSE Len(score) - dot
    IN  score \o (IF dot = 0 THEN <<".">> ELSE <<>>) \o Repeat("0", ScoreDecimals - decimals)

\* the text written to /tmp/guideline_chunks.txt
ChunksDump(query, cs) ==
    <<"[HH:MM:SS]", " Query: ">> \o query \o <<NL, NL>>
        \o Concat(<<NL, NL, "---", NL, NL>>,
                  [n \in 1..Len(cs) |->
                      <<"Score=">> \o FormatScore(cs[n].score) \o <<" Source=">>
                          \o cs[n].source \o <<NL>> \o cs[n].text])

\* the text written to /tmp/guideline_raw_output.txt
OutputDump(unique) ==
    <<"[HH:MM:SS]", SP>> \o DecimalText(Len(unique)) \o <<" entries (rule-based)", NL, NL>>
        \o Concat(<<NL>>,
                  [n \in 1..Len(unique) |->
                      <<"[", unique[n].category, "] (", unique[n].confidence, ") ">>
                          \o unique[n].recommendation])

\* GuidelineRecommendation(...)
GuidelineResult(recs, srcs, rawtext) ==
    [status |-> "ok", recommendations |-> recs, retrieved_sources |-> srcs, raw |-> rawtext]

NoGuidelines == [status |-> "none", recommendations |-> <<>>, retrieved_sources |-> <<>>, raw |-> <<>>]

----------------------------------------------------------------------------
(* Guideline agent: the passages the retriever is given to return *)

MaxLines == 3
MaxChunks == 2

ManagementHeader == <<"M", "A", "N", "A", "G", "E", "M", "E", "N", "T", " ", "G", "U", "I", "D", "E", "L", "I", "N", "E", "S">>
ExcludedHeader == <<"D", "I", "A", "G", "N", "O", "S", "T", "I", "C", " ", "C", "R", "I", "T", "E", "R", "I", "A">>
NumberedMonitoring == <<"2", ".", "1", " ", "M", "o", "n", "i", "t", "o", "r", "i", "n", "g", " ", "s", "c", "h", "e", "d", "u", "l", "e">>
MarkdownWorkup == <<"#", "#", " ", "W", "o", "r", "k", "u", "p">>
DiagnosisWorkup == <<"D", "I", "A", "G", "N", "O", "S", "I", "S", " ", "A", "N", "D", " ", "W", "O", "R", "K", "U", "P">>

ShouldBullet == <<"-", " ", "P", "a", "t", "i", "e", "n", "t", "s", " ", "s", "h", "o", "u", "l", "d", " ", "r", "e", "c", "e", "i", "v", "e", " ", "a", "n", "t", "i", "f", "i", "b", "r", "o", "t", "i", "c", " ", "t", "h", "e", "r", "a", "p", "y", ".">>
CutOffBullet == <<"-", " ", "P", "a", "t", "i", "e", "n", "t", "s", " ", "s", "h", "o", "u", "l", "d", " ", "r", "e", "c", "e", "i", "v", "e", " ", "a", "n", "t", "i", "f", "i", "b", "r", "o", "t", "i", "c", " ", "t", "h", "e", "r", "a", "p", "y">>
ConsiderBullet == <<"-", " ", "C", "o", "n", "s", "i", "d", "e", "r", " ", " ", "r", "e", "f", "e", "r", "r", "a", "l", " ", "t", "o", " ", "a", " ", "t", "r", "a", "n", "s", "p", "l", "a", "n", "t", " ", "c", "e", "n", "t", "r", "e", ".">>
ShortBullet == <<"-", " ", "S", "t", "o", "p", " ", "s", "m", "o", "k", "i", "n", "g", ".">>
IndentedLine == <<" ", " ", "i", "n", " ", "a", "l", "l", " ", "e", "l", "i", "g", "i", "b", "l", "e", " ", "p", "a", "t", "i", "e", "n", "t", "s", ".">>
SingleSpaceLine == <<" ", "i", "n", " ", "a", "l", "l", " ", "e", "l", "i", "g", "i", "b", "l", "e", " ", "p", "a", "t", "i", "e", "n", "t", "s", ".">>
ReferParagraph == <<"R", "e", "f", "e", "r", " ", "a", "l", "l", " ", "p", "a", "t", "i", "e", "n", "t", "s", " ", "t", "o", " ", "t", "h", "e", " ", "c", "l", "i", "n", "i", "c", ".">>
EmptyLine == <<>>

\* the lines a passage is made of
LineFamily ==
    {ManagementHeader, ExcludedHeader, NumberedMonitoring, MarkdownWorkup,
     DiagnosisWorkup, SingleSpaceLine,
     ShouldBullet, CutOffBullet, ConsiderBullet, ShortBullet,
     IndentedLine, ReferParagraph, EmptyLine}

\* bullet lines of at least 25 characters that hold the word should
ShouldBullets ==
    {ShouldBullet, CutOffBullet,
     <<"-", " ", "O", "x", "y", "g", "e", "n", " ", "s", "h", "o", "u", "l", "d", " ", "b", "e", " ", "t", "i", "t", "r", "a", "t", "e", "d", " ", "t", "o", " ", "t", "h", "e", " ", "s", "a", "t", "u", "r", "a", "t", "i", "o", "n", ",">>,
     <<"-", " ", " ", " ", "S", "m", "o", "k", "e", "r", "s", " ", " ", " ", " ", "s", "h", "o", "u", "l", "d", " ", " ", " ", " ", "s", "t", "o", "p", ".">>,
     <<"-", " ", "C", "l", "i", "n", "i", "c", "i", "a", "n", "s", " ", "m", "a", "y", " ", "c", "o", "n", "s", "i", "d", "e", "r", " ", "w", "h", "a", "t", " ", "s", "h", "o", "u", "l", "d", " ", "b", "e", " ", "d", "o", "n", "e", ".">>,
     <<"-", " ", "C", "l", "i", "n", "i", "c", "i", "a", "n", "s", " ", "S", "H", "O", "U", "L", "D", " ", "r", "e", "v", "i", "e", "w", " ", "e", "v", "e", "r", "y", " ", "c", "a", "s", "e", " ", "a", "t", " ", "3", " ", "m", "o", "n", "t", "h", "s">>,
     <<"-", " ", "T", "h", "e", "r", "a", "p", "y", " ", "s", "h", "o", "u", "l", "d", " ", "b", "e", " ", "r", "e", "v", "i", "e", "w", "e", "d", " ", "(", "s", "e", "e", " ", "s", "e", "c", "t", "i", "o", "n", " ", "4", ")">>}

\* bullet lines whose text has exactly 25 and exactly 24 characters
BoundaryBullets ==
    {<<"-", " ", "S", "t", "o", "p", " ", "s", "m", "o", "k", "i", "n", "g", " ", "a", "t", " ", "o", "n", "c", "e", " ", "n", "o", "w", ".">>,
     <<"-", " ", "S", "t", "o", "p", " ", "s", "m", "o", "k", "i", "n", "g", " ", "a", "t", " ", "o", "n", "e", " ", "n", "o", "w", ".">>}

\* lines that meet the conditions of several branches: a header in capitals
\* that begins with the bullet marker, an indented header, an indented bullet
MarkedHeader == <<"-", " ", "R", "E", "F", "E", "R", " ", "A", "L", "L", " ", "P", "A", "T", "I", "E", "N", "T", "S", " ", "T", "O", " ", "T", "H", "E", " ", "C", "L", "I", "N", "I", "C", ".">>
IndentedHeader == <<" ", " ", "#", "#", " ", "W", "o", "r", "k", "u", "p">>
IndentedBullet == <<" ", " ", "-", " ", "P", "a", "t", "i", "e", "n", "t", "s", " ", "s", "h", "o", "u", "l", "d", " ", "r", "e", "c", "e", "i", "v", "e", " ", "o", "x", "y", "g", "e", "n", " ", "a", "t", " ", "h", "o", "m", "e", ".">>
SeveralKinds == {MarkedHeader, IndentedHeader, IndentedBullet}

\* the text of a passage with the lines ls
PassageOf(ls) == Concat(<<NL>>, ls)

RespiratorySource == <<"guidelines", "/">> \o SampleRespiratory
NotesPdf == <<"docs", "/", "ild", "_", "notes", ".pdf">>
NotesTxt == <<"ild", "_", "notes", ".txt">>

Chunk(source, ls, score) == [source |-> source, text |-> PassageOf(ls), score |-> score]

\* every passage of at most MaxLines lines, a header before each bullet
\* that holds the word should, the bullets at the length threshold, and the
\* lines of several kinds after a bullet and before an indented line
RichChunks ==
    {Chunk(RespiratorySource, ls, <<"0", ".", "9">>) :
        ls \in UNION {[1..n -> LineFamily] : n \in 0..MaxLines}}
      \cup {Chunk(RespiratorySource, <<ManagementHeader, b>>, <<"0", ".", "9">>) :
              b \in ShouldBullets}
      \cup {Chunk(RespiratorySource, <<b>>, <<"0", ".", "9">>) : b \in BoundaryBullets}
      \cup {Chunk(RespiratorySource, before \o <<l>> \o after, <<"0", ".", "9">>) :
              before \in {<<>>, <<ShouldBullet>>}, l \in SeveralKinds,
              after \in {<<>>, <<IndentedLine>>}}

\* a recommendation longer than the key, ending as tail
LongBullet(tail) ==
    <<"-", " ", "P", "u", "l", "m", "o", "n", "a", "r", "y", " ", "f", "u", "n", "c", "t", "i", "o", "n", " ", "t", "e", "s", "t", "s", " ", "s", "h", "o", "u", "l", "d", " ", "b", "e", " ", "r", "e", "p", "e", "a", "t", "e", "d", " ", "i", "n", " ", "e", "v", "e", "r", "y", " ", "p", "a", "t", "i", "e", "n", "t", " ", "w", "i", "t", "h", " ", "f", "i", "b", "r", "o", "t", "i", "c", " ", "d", "i", "s", "e", "a", "s", "e", " ">>
        \o tail

\* passages of several sources that repeat recommendations
SmallChunks ==
    {Chunk(RespiratorySource, <<ManagementHeader, ShouldBullet>>, <<"0", ".", "9">>),
     Chunk(ConnectiveTissue, <<<<"-", " ", "p", "a", "t", "i", "e", "n", "t", "s", " ", " ", "S", "H", "O", "U", "L", "D", " ", "r", "e", "c", "e", "i", "v", "e", " ", "a", "n", "t", "i", "f", "i", "b", "r", "o", "t", "i", "c", " ", "t", "h", "e", "r", "a", "p", "y", ".">>>>,
           <<"0", ".", "7", "5">>),
     Chunk(NotesPdf, <<NumberedMonitoring, LongBullet(<<"o", "n", "c", "e", " ", "a", " ", "y", "e", "a", "r", ".">>)>>, <<"1">>),
     Chunk(NotesTxt, <<LongBullet(<<"t", "w", "i", "c", "e", " ", "a", " ", "y", "e", "a", "r", ".">>), ConsiderBullet>>, <<"0", ".", "5">>),
     Chunk(ConnectiveTissue, <<ExcludedHeader, ShouldBullet>>, <<"0", ".", "2", "5", "1">>),
     Chunk(NotesTxt, <<ConsiderBullet, ShouldBullet>>, <<"0", ".", "1">>)}

\* the conditions of the diagnoses the query is built from
ConditionLists ==
    {<<>>, <<<<"IPF">>, <<"CTD-ILD">>, <<"Sarcoidosis">>, <<"COPD">>>>}

\* what run is called with: the conditions and the retriever
GuidelineInputs ==
    {[conditions |-> <<>>, retriever |-> Retriever(<<c>>)] : c \in RichChunks}
      \cup {[conditions |-> cs, retriever |-> Retriever(ps)] :
              cs \in ConditionLists, ps \in UNION {[1..n -> SmallChunks] : n \in 0..MaxChunks}}
      \cup {[conditions |-> cs, retriever |-> NoRetriever] : cs \in ConditionLists}

----------------------------------------------------------------------------
(* Guideline agent: the dump files and the idle state *)

\* the files the agents write their debug dumps to
PatientPath == "/tmp/patient_raw_output.txt"
DdxPath == "/tmp/ddx_raw_output.txt"
ChunksPath == "/tmp/guideline_chunks.txt"
OutputPath == "/tmp/guideline_raw_output.txt"
DumpPaths == {PatientPath, DdxPath, ChunksPath, OutputPath}

\* the guideline agent is not running
GuidelineIdle ==
    /\ gpc = "idle"
    /\ conditions = <<>>
    /\ retriever = NoRetriever
    /\ chunks = <<>>
    /\ sources = <<>>
    /\ chunk_no = 0
    /\ lines = <<>>
    /\ line_no = 0
    /\ current_category = "Management"
    /\ skip_section = FALSE
    /\ pending_bullet = None
    /\ entries = <<>>
    /\ raw_entries = <<>>
    /\ guidelines = NoGuidelines
    /\ files = [p \in DumpPaths |-> <<>>]

\* none of the LLM-backed agents is running
AgentIdle ==
    /\ task = "none"
    /\ raw = <<>>
    /\ pc = "idle"
    /\ stripped = <<>>
    /\ text = <<>>
    /\ tried = <<>>
    /\ parsed = JNull
    /\ via = "none"
    /\ out = NoOutcome
    /\ dump = <<>>

\* no requests are in flight together
ConcurrentIdle == requests = <<>> /\ threads = <<>>

\* no request has reached the analyze handler
AuditIdle == analyze = <<>> /\ pending = {} /\ audit_log = <<>>

----------------------------------------------------------------------------
(* One request of one task: engine.generate has returned raw *)

Init ==
    /\ task \in Tasks
    /\ raw \in Inputs(task)
    /\ pc = "strip"
    /\ stripped = <<>>
    /\ text = <<>>
    /\ tried = <<>>
    /\ parsed = JNull
    /\ via = "none"
    /\ out = NoOutcome
    /\ dump = <<>>
    /\ GuidelineIdle
    /\ ConcurrentIdle
    /\ AuditIdle

\* what write_text puts into the dump file of the task: a time stamp line,
\* then the raw completion
DumpText(r) == <<"[HH:MM:SS]", NL>> \o r \o <<NL>>

\* a cascade that scans from the first brace before it scans from the last
NextStrategyFirstBeforeLast(t, s) ==
    IF t = "patient" THEN
        (IF s = "direct" THEN "first" ELSE IF s = "first" THEN "last"
         ELSE IF s = "last" THEN "repair" ELSE "fallback")
    ELSE IF t = "ddx" THEN (IF s = "direct" THEN "first" ELSE "fallback")
    ELSE (IF s = "direct" THEN "greedy" ELSE "fallback")

\* the strategy a task tries after s failed
NextStrategy(t, s) ==
    IF t = "patient" THEN
        (IF s = "direct" THEN "last" ELSE IF s = "last" THEN "first"
         ELSE IF s = "first" THEN "repair" ELSE "fallback")
    ELSE IF t = "ddx" THEN (IF s = "direct" THEN "first" ELSE "fallback")
    ELSE (IF s = "direct" THEN "greedy" ELSE "fallback")

\* the candidate text a strategy hands to json.loads, None when it has none
Candidate(s, txt) ==
    IF s = "direct" THEN txt
    ELSE IF s = "last" THEN ExtractJsonFromLastBrace(txt)
    ELSE IF s = "first" THEN ExtractJsonObject(txt)
    ELSE IF s = "greedy" THEN GreedyBraceSpan(txt)
    ELSE RepairTruncatedJson(txt)

\* parse_response: the patient agent dumps the raw completion first; then
\* text = _strip_thinking_blocks(raw)
StripThinkingStep ==
    /\ pc = "strip"
    /\ dump' = IF task = "patient" THEN DumpText(raw) ELSE dump
    /\ stripped' = StripThinking(task, raw)
    /\ pc' = "fence"
    /\ UNCHANGED <<task, raw, text, tried, parsed, via, out>>
    /\ UNCHANGED <<guidelinevars, files, concurrentvars, auditvars>>

\* parse_response: the fences, stray backticks and surrounding whitespace go
StripFencesStep ==
    /\ pc = "fence"
    /\ text' = StripCodeFences(task, stripped)
    /\ pc' = "direct"
    /\ UNCHANGED <<task, raw, stripped, tried, parsed, via, out, dump>>
    /\ UNCHANGED <<guidelinevars, files, concurrentvars, auditvars>>

\* one try/except block of parse_response: strategy s is tried; its value is
\* returned, or the next strategy is up
Try(s) ==
    /\ pc = s
    /\ tried' = Append(tried, s)
    /\ LET c == Candidate(s, text)
           r == IF s # "direct" /\ c = None THEN Fail ELSE Loads(c)
       IN  IF r.ok
           THEN parsed' = r.v /\ via' = s /\ pc' = "run"
           ELSE pc' = NextStrategy(task, s) /\ UNCHANGED <<parsed, via>>
    /\ UNCHANGED <<task, raw, stripped, text, out, dump>>
    /\ UNCHANGED <<guidelinevars, files, concurrentvars, auditvars>>

\* json.loads(text)
TryDirect ==
    /\ pc = "direct"
    /\ Try("direct")

\* patient agent: _extract_json_from_last_brace, then json.loads
TryLast ==
    /\ pc = "last"
    /\ Try("last")

\* patient and DDx agents: _extract_json_object, then json.loads
TryFirst ==
    /\ pc = "first"
    /\ Try("first")

\* SOAP agent: the greedy brace regex, then json.loads
TryGreedy ==
    /\ pc = "greedy"
    /\ Try("greedy")

\* patient agent: _repair_truncated_json, then json.loads
TryRepair ==
    /\ pc = "repair"
    /\ Try("repair")

\* parse_response: every strategy failed; the DDx agent dumps the raw
\* completion, and the default dict is returned
Fallback ==
    /\ pc = "fallback"
    /\ tried' = Append(tried, "fallback")
    /\ parsed' = FallbackDict(task)
    /\ via' = "fallback"
    /\ pc' = "run"
    /\ dump' = IF task = "ddx" THEN DumpText(raw) ELSE dump
    /\ UNCHANGED <<task, raw, stripped, text, out>>
    /\ UNCHANGED <<guidelinevars, files, concurrentvars, auditvars>>

\* run: the typed record is built from what parse_response returned
Run ==
    /\ pc = "run"
    /\ out' = RunAgent(task, parsed, raw)
    /\ pc' = "done"
    /\ UNCHANGED <<task, raw, stripped, text, tried, parsed, via, dump>>
    /\ UNCHANGED <<guidelinevars, files, concurrentvars, auditvars>>

Next ==
    \/ StripThinkingStep
    \/ StripFencesStep
    \/ TryDirect
    \/ TryLast
    \/ TryFirst
    \/ TryGreedy
    \/ TryRepair
    \/ Fallback
    \/ Run

Spec == Init /\ [][Next]_vars

----------------------------------------------------------------------------
(* Guideline agent: run as a state machine, one step per line of a passage *)

GuidelineInit ==
    /\ AgentIdle
    /\ ConcurrentIdle
    /\ AuditIdle
    /\ \E in \in GuidelineInputs : conditions = in.conditions /\ retriever = in.retriever
    /\ gpc = "retrieve"
    /\ chunks = <<>>
    /\ sources = <<>>
    /\ chunk_no = 0
    /\ lines = <<>>
    /\ line_no = 0
    /\ current_category = "Management"
    /\ skip_section = FALSE
    /\ pending_bullet = None
    /\ entries = <<>>
    /\ raw_entries = <<>>
    /\ guidelines = NoGuidelines
    /\ files = [p \in DumpPaths |-> <<>>]

\* the classifier state, as _parse_chunk holds it
ScanState ==
    [current_category |-> current_category, skip_section |-> skip_section,
     pending_bullet |-> pending_bullet, entries |-> entries]

\* the classifier state becomes st and the next line is due
ScanBecomes(st) ==
    /\ current_category' = st.current_category
    /\ skip_section' = st.skip_section
    /\ pending_bullet' = st.pending_bullet
    /\ entries' = st.entries
    /\ line_no' = line_no + 1
    /\ UNCHANGED <<gpc, conditions, retriever, chunks, sources, chunk_no, lines,
                   raw_entries, guidelines, files>>
    /\ UNCHANGED <<agentvars, concurrentvars, auditvars>>

\* the label of the passage being scanned
CurrentLabel == Label(SourceOf(chunks[chunk_no]))

\* a first step that calls retrieve on the retriever without testing for None
RetrieveUnguarded ==
    /\ gpc = "retrieve"
    /\ IF retriever.configured
       THEN /\ chunks' = retriever.returns
            /\ sources' \in ListsOf(ChunkLabels(retriever.returns))
            /\ files' = [files EXCEPT ![ChunksPath] =
                                         ChunksDump(RagQuery(conditions), retriever.returns)]
            /\ gpc' = IF retriever.returns = <<>> THEN "empty" ELSE "chunk"
            /\ chunk_no' = 1
            /\ UNCHANGED guidelines
       ELSE /\ guidelines' = [NoGuidelines EXCEPT !.status = "AttributeError"]
            /\ gpc' = "done"
            /\ UNCHANGED <<chunks, sources, files, chunk_no>>
    /\ UNCHANGED <<conditions, retriever, lines, line_no, current_category, skip_section,
                   pending_bullet, entries, raw_entries>>
    /\ UNCHANGED <<agentvars, concurrentvars, auditvars>>

\* run, step 1: the query, the passages, the source labels and the dump of
\* the passages
Retrieve ==
    /\ gpc = "retrieve"
    /\ LET cs == IF retriever.configured THEN retriever.returns ELSE <<>>
       IN  /\ chunks' = cs
           /\ sources' \in ListsOf(ChunkLabels(cs))
           /\ files' = [files EXCEPT ![ChunksPath] = ChunksDump(RagQuery(conditions), cs)]
           /\ gpc' = IF cs = <<>> THEN "empty" ELSE "chunk"
           /\ chunk_no' = 1
    /\ UNCHANGED <<conditions, retriever, lines, line_no, current_category, skip_section,
                   pending_bullet, entries, raw_entries, guidelines>>
    /\ UNCHANGED <<agentvars, concurrentvars, auditvars>>

\* run: no passage was retrieved
NoChunks ==
    /\ gpc = "empty"
    /\ guidelines' = GuidelineResult(<<>>, <<>>, <<>>)
    /\ gpc' = "done"
    /\ UNCHANGED <<conditions, retriever, chunks, sources, chunk_no, lines, line_no,
                   current_category, skip_section, pending_bullet, entries, raw_entries,
                   files>>
    /\ UNCHANGED <<agentvars, concurrentvars, auditvars>>

\* _parse_chunk is entered for the next passage
StartChunk ==
    /\ gpc = "chunk"
    /\ lines' = SplitLines(chunks[chunk_no].text)
    /\ line_no' = 1
    /\ current_category' = StartState.current_category
    /\ skip_section' = StartState.skip_section
    /\ pending_bullet' = StartState.pending_bullet
    /\ entries' = StartState.entries
    /\ gpc' = "scan"
    /\ UNCHANGED <<conditions, retriever, chunks, sources, chunk_no, raw_entries,
                   guidelines, files>>
    /\ UNCHANGED <<agentvars, concurrentvars, auditvars>>

\* the line due, when one is
LineDue == gpc = "scan" /\ line_no <= Len(lines)

\* _parse_chunk: an empty line is passed over
BlankLine ==
    /\ LineDue
    /\ LineKind(ScanState, lines[line_no]) = "blank"
    /\ ScanBecomes(ScanState)

\* _parse_chunk: a header flushes the pending bullet and sets the section
HeaderLine ==
    /\ LineDue
    /\ LineKind(ScanState, lines[line_no]) = "header"
    /\ ScanBecomes(OnHeader(ScanState, Strip(lines[line_no]), CurrentLabel))

\* _parse_chunk: a bullet flushes the pending bullet and becomes pending
BulletLine ==
    /\ LineDue
    /\ LineKind(ScanState, lines[line_no]) = "bullet"
    /\ ScanBecomes(OnBullet(ScanState, Strip(lines[line_no]), CurrentLabel))

\* _parse_chunk: an indented line is added to the pending bullet
ContinuationLine ==
    /\ LineDue
    /\ LineKind(ScanState, lines[line_no]) = "continuation"
    /\ ScanBecomes(OnContinuation(ScanState, Strip(lines[line_no])))

\* _parse_chunk: any other line
ParagraphLine ==
    /\ LineDue
    /\ LineKind(ScanState, lines[line_no]) = "paragraph"
    /\ ScanBecomes(OnParagraph(ScanState, Strip(lines[line_no])))

\* _parse_chunk returns after the last flush, and run extends raw_entries
EndOfPassage ==
    /\ gpc = "scan"
    /\ line_no > Len(lines)
    /\ entries' = Flush(ScanState, CurrentLabel)
    /\ raw_entries' = raw_entries \o entries'
    /\ chunk_no' = chunk_no + 1
    /\ gpc' = IF chunk_no = Len(chunks) THEN "aggregate" ELSE "chunk"
    /\ UNCHANGED <<conditions, retriever, chunks, sources, lines, line_no, current_category,
                   skip_section, pending_bullet, guidelines, files>>
    /\ UNCHANGED <<agentvars, concurrentvars, auditvars>>

\* run, step 2: the entries are deduplicated, dumped and returned
Aggregate ==
    /\ gpc = "aggregate"
    /\ LET unique == Unique(raw_entries)
       IN  /\ files' = [files EXCEPT ![OutputPath] = OutputDump(unique)]
           /\ guidelines' =
                 GuidelineResult(unique, sources,
                                 Concat(<<NL>>, [n \in 1..Len(unique) |->
                                                    unique[n].recommendation]))
    /\ gpc' = "done"
    /\ UNCHANGED <<conditions, retriever, chunks, sources, chunk_no, lines, line_no,
                   current_category, skip_section, pending_bullet, entries, raw_entries>>
    /\ UNCHANGED <<agentvars, concurrentvars, auditvars>>

GuidelineNext ==
    \/ Retrieve
    \/ NoChunks
    \/ StartChunk
    \/ BlankLine
    \/ HeaderLine
    \/ BulletLine
    \/ ContinuationLine
    \/ ParagraphLine
    \/ EndOfPassage
    \/ Aggregate

GuidelineSpec == GuidelineInit /\ [][GuidelineNext]_vars

----------------------------------------------------------------------------
(* Requests in flight together.  analyze runs the guideline task and the   *)
(* patient-explanation task of a request in two threads of the pool, and   *)
(* the event loop takes the next request while they run.                   *)

MaxRequests == 2

RECURSIVE Cascade(_, _, _)
\* parse_response after the normalization: the value of the first strategy
\* that parses, the default dict when none does
Cascade(t, txt, s) ==
    IF s = "fallback" THEN FallbackDict(t)
    ELSE LET c == Candidate(s, txt)
             r == IF s # "direct" /\ c = None THEN Fail ELSE Loads(c)
         IN  IF r.ok THEN r.v ELSE Cascade(t, txt, NextStrategy(t, s))

\* parse_response, its return value
ParseResponse(t, r) == Cascade(t, Normalize(t, r), "direct")

RECURSIVE CandidatesOf(_)
\* run: raw_entries after the loop over the passages cs
CandidatesOf(cs) ==
    IF cs = <<>> THEN <<>>
    ELSE CandidatesOf(SubSeq(cs, 1, Len(cs) - 1)) \o ParseChunk(cs[Len(cs)])

\* the passages retrieve gives run
Retrieved(r) == IF r.configured THEN r.returns ELSE <<>>

\* the completions and the retrievers of the requests in flight together
ConcurrentRaws == {ExampleObject, <<LB, RB>>}

ConcurrentRetrievers ==
    {Retriever(<<Chunk(RespiratorySource, <<ManagementHeader, ShouldBullet>>, <<"0", ".", "9">>)>>),
     Retriever(<<Chunk(NotesTxt, <<ConsiderBullet>>, <<"0", ".", "5">>)>>)}

Requests == 1..MaxRequests

\* the threads of the pool: the two tasks of every request
Threads == Requests \X {"guideline", "patient"}

ConcurrentInit ==
    /\ AgentIdle
    /\ GuidelineIdle
    /\ AuditIdle
    /\ requests \in [Requests -> [raw : ConcurrentRaws, retriever : ConcurrentRetrievers]]
    /\ threads = [t \in Threads |->
                    [pc |-> "start", wrote |-> {},
                     result |-> IF t[2] = "patient" THEN NoOutcome ELSE NoGuidelines]]

\* thread t writes text to the file at path
WriteText(t, path, content) ==
    /\ files' = [files EXCEPT ![path] = content]
    /\ threads' = [threads EXCEPT ![t].pc = "dumped", ![t].wrote = @ \cup {path}]

\* thread t returns result
Return(t, result) ==
    threads' = [threads EXCEPT ![t].pc = "done", ![t].result = result]

\* patient_agent.parse_response in a thread: the raw completion is dumped
PatientDump ==
    \E t \in Threads :
        /\ t[2] = "patient" /\ threads[t].pc = "start"
        /\ WriteText(t, PatientPath, DumpText(requests[t[1]].raw))
        /\ UNCHANGED <<agentvars, guidelinevars, requests, auditvars>>

\* patient_agent.run in a thread: the parse and the record
PatientReturn ==
    \E t \in Threads :
        /\ t[2] = "patient" /\ threads[t].pc = "dumped"
        /\ Return(t, RunPatient(ParseResponse("patient", requests[t[1]].raw),
                                requests[t[1]].raw))
        /\ UNCHANGED <<agentvars, guidelinevars, files, requests, auditvars>>

\* guideline_agent.run in a thread, step 1: the passages are dumped
GuidelineDump ==
    \E t \in Threads :
        /\ t[2] = "guideline" /\ threads[t].pc = "start"
        /\ WriteText(t, ChunksPath,
                     ChunksDump(RagQuery(<<>>), Retrieved(requests[t[1]].retriever)))
        /\ UNCHANGED <<agentvars, guidelinevars, requests, auditvars>>

\* guideline_agent.run in a thread, step 2: the entries are dumped and the
\* record is returned
GuidelineReturn ==
    \E t \in Threads :
        /\ t[2] = "guideline" /\ threads[t].pc = "dumped"
        /\ LET cs == Retrieved(requests[t[1]].retriever)
               unique == Unique(CandidatesOf(cs))
           IN  /\ files' = [files EXCEPT ![OutputPath] = OutputDump(unique)]
               /\ \E order \in ListsOf(ChunkLabels(cs)) :
                     threads' = [threads EXCEPT
                                    ![t].pc = "done",
                                    ![t].wrote = @ \cup {OutputPath},
                                    ![t].result =
                                        GuidelineResult(unique, order,
                                            Concat(<<NL>>, [n \in 1..Len(unique) |->
                                                              unique[n].recommendation]))]
        /\ UNCHANGED <<agentvars, guidelinevars, requests, auditvars>>

ConcurrentNext ==
    \/ PatientDump
    \/ PatientReturn
    \/ GuidelineDump
    \/ GuidelineReturn

ConcurrentSpec == ConcurrentInit /\ [][ConcurrentNext]_vars

----------------------------------------------------------------------------
(* The audit logger and the analyze handler.  analyze is a coroutine: from  *)
(* its entry to the await of the two threads it runs without yielding, and  *)
(* from the return of the await to its end.  The SOAP and DDx agents run    *)
(* before the await, the guideline and patient agents in the threads.       *)

\* the record ids uuid4 can give, taken as never given twice
RecordIds == {"id1", "id2", "id3"}

\* the ids given so far
Issued == pending \cup {audit_log[n].record_id : n \in 1..Len(audit_log)}

\* no record id: the handler has not called start, the record lacks the key
NoRecord == "none"

\* error=None
NoError == "null"

\* what str(exc)[:200] gives finish for an agent that raised
ErrorText == "ValidationError"

AuditInit ==
    /\ AgentIdle
    /\ GuidelineIdle
    /\ ConcurrentIdle
    /\ analyze = [r \in Requests |-> [pc |-> "idle", record_id |-> NoRecord]]
    /\ pending = {}
    /\ audit_log = <<>>

\* AuditLogger.finish: the pending entry is popped, completed with the error
\* and, when there is a response, with its counts, and appended to the log;
\* an id that is not pending gives a record without record_id
Finish(table, id, response, error) ==
    /\ pending' = table \ {id}
    /\ audit_log' = Append(audit_log,
                           [record_id |-> IF id \in table THEN id ELSE NoRecord,
                            response |-> response, error |-> error])

\* analyze up to the await: AuditLogger.start files the record under a new
\* id, the SOAP and DDx agents return, the two threads are started
AnalyzeAwaits(r) ==
    /\ analyze[r].pc = "idle"
    /\ \E id \in RecordIds \ Issued :
          /\ analyze' = [analyze EXCEPT ![r] = [pc |-> "await", record_id |-> id]]
          /\ pending' = pending \cup {id}
    /\ UNCHANGED audit_log
    /\ UNCHANGED <<agentvars, guidelinevars, files, concurrentvars>>

\* analyze when the SOAP or the DDx agent raises: start, then the except
\* branch calls finish with the error
AnalyzeRaises(r) ==
    /\ analyze[r].pc = "idle"
    /\ \E id \in RecordIds \ Issued :
          /\ analyze' = [analyze EXCEPT ![r] = [pc |-> "failed", record_id |-> id]]
          /\ Finish(pending \cup {id}, id, FALSE, ErrorText)
    /\ UNCHANGED <<agentvars, guidelinevars, files, concurrentvars>>

\* the await returns the two records: the response is built and finish is
\* called with it
GatherReturns(r) ==
    /\ analyze[r].pc = "await"
    /\ analyze' = [analyze EXCEPT ![r].pc = "returned"]
    /\ Finish(pending, analyze[r].record_id, TRUE, NoError)
    /\ UNCHANGED <<agentvars, guidelinevars, files, concurrentvars>>

\* the await raises what the guideline or the patient agent raised: the
\* except branch calls finish with the error
GatherRaises(r) ==
    /\ analyze[r].pc = "await"
    /\ analyze' = [analyze EXCEPT ![r].pc = "failed"]
    /\ Finish(pending, analyze[r].record_id, FALSE, ErrorText)
    /\ UNCHANGED <<agentvars, guidelinevars, files, concurrentvars>>

\* the request is abandoned while the handler awaits: the await raises
\* CancelledError, which is no Exception, so the except branch is not taken
Abandoned(r) ==
    /\ analyze[r].pc = "await"
    /\ analyze' = [analyze EXCEPT ![r].pc = "abandoned"]
    /\ UNCHANGED <<pending, audit_log>>
    /\ UNCHANGED <<agentvars, guidelinevars, files, concurrentvars>>

\* the steps that end the await of request r
AwaitEnds(r) == GatherReturns(r) \/ GatherRaises(r) \/ Abandoned(r)

AuditNext ==
    \E r \in Requests :
        \/ AnalyzeAwaits(r)
        \/ AnalyzeRaises(r)
        \/ GatherReturns(r)
        \/ GatherRaises(r)
        \/ Abandoned(r)

\* the threads of a request end, or the request is abandoned: no handler
\* awaits for ever
AuditSpec ==
    AuditInit /\ [][AuditNext]_vars /\ \A r \in Requests : WF_vars(AwaitEnds(r))

----------------------------------------------------------------------------
(* Properties *)

Returned == pc \in {"run", "done"}

Normalized == pc \notin {"strip", "fence"}

IsPrefix(p, q) == Len(p) <= Len(q) /\ p = Slice(q, 1, Len(p))

IsSuffix(p, q) == Len(p) <= Len(q) /\ p = From(q, Len(q) - Len(p) + 1)

\* C1: parse_response returns a key-to-value mapping for every raw text, so that
\* run can read fields from it
C1_ReturnsMapping == Returned => parsed.k = "obj"

\* the value a field of the record holds
Field(word) == Get(out.rec, K(word), JNull)

\* the key is missing from the dict parse_response returned
Missing(word) == ~HasKey(parsed, K(word))

\* every entry of the returned diagnoses list holds its five fields, an absent
\* key as its default: the position for rank, Unknown, Low, and empty texts
EntriesComplete ==
    LET given == Take(Get(parsed, K("diagnoses"), JArr(<<>>)).v, Cap)
        built == Field("diagnoses").v
    IN  /\ Len(built) = Len(given)
        /\ \A n \in 1..Len(built) :
              /\ \A m \in 1..Len(EntryFields) : HasKey(built[n], K(EntryFields[m]))
              /\ Get(built[n], K("rank"), JNull).k = "num"
              /\ \A m \in 2..Len(EntryFields) : Get(built[n], K(EntryFields[m]), JNull).k = "str"
              /\ ~HasKey(given[n], K("rank")) => Get(built[n], K("rank"), JNull) = RankOf(n)
              /\ ~HasKey(given[n], K("condition"))
                    => Get(built[n], K("condition"), JNull) = JStr(K("Unknown"))
              /\ ~HasKey(given[n], K("likelihood"))
                    => Get(built[n], K("likelihood"), JNull) = JStr(K("Low"))
              /\ ~HasKey(given[n], K("supporting_features"))
                    => Get(built[n], K("supporting_features"), JNull) = JStr(<<>>)
              /\ ~HasKey(given[n], K("against_features"))
                    => Get(built[n], K("against_features"), JNull) = JStr(<<>>)

\* C2: every record a task returns holds every field of its schema; a key the
\* parsed object lacks holds its documented default, and after the fallback
\* every field holds the fallback text (a SOAP refusal, the parsed object
\* holding the key error, has its own documented texts)
C2_RecordComplete ==
    out.status = "ok" =>
        /\ HasKey(out.rec, K("raw")) /\ JEq(Field("raw"), JStr(raw))
        /\ \A n \in 1..Len(Fields(task)) : HasKey(out.rec, K(Fields(task)[n]))
        /\ task = "soap" =>
              /\ \A n \in 1..Len(SoapFields) : Field(SoapFields[n]).k = "str"
              /\ \A n \in 1..Len(SoapFields) :
                    Missing(SoapFields[n]) /\ Missing("error")
                        => Field(SoapFields[n]) = SoapNotDocumented
              /\ via = "fallback"
                    => \A n \in 1..Len(SoapFields) : Field(SoapFields[n]) = SoapParseError
        /\ task = "ddx" =>
              /\ Field("diagnoses").k = "arr" /\ Field("reasoning_summary").k = "str"
              /\ EntriesComplete
              /\ Missing("diagnoses") => Field("diagnoses").v = <<>>
              /\ Missing("reasoning_summary") => Field("reasoning_summary") = DdxUnavailable
              /\ via = "fallback"
                    => Field("diagnoses").v = <<>> /\ Field("reasoning_summary") = DdxParseError
        /\ task = "patient" =>
              /\ Field("summary").k = "str" /\ Field("next_steps_suggestion").k = "str"
              /\ Field("key_points").k = "arr" /\ ValidStrList(Field("key_points").v)
              /\ Missing("summary") => Field("summary") = PatientSummaryDefault
              /\ Missing("key_points") => Field("key_points").v = <<>>
              /\ Missing("next_steps_suggestion")
                    => Field("next_steps_suggestion") = PatientStepsDefault
              /\ via = "fallback"
                    => /\ Field("summary") = PatientNoSummary
                       /\ Field("key_points").v = <<PatientNoPoints>>
                       /\ Field("next_steps_suggestion") = PatientNoSteps

\* a record built from a parsed object that lacks a key of the schema
C2_Witness ==
    /\ pc = "done" /\ out.status = "ok" /\ via = "direct" /\ task = "patient"
    /\ HasKey(parsed, K("key_points")) /\ Missing("summary")

\* the order of the strategies of patient_agent.parse_response
CascadeOrder == <<"direct", "last", "first", "repair", "fallback">>

\* what strategy s yields on the normalized text
StrategyResult(s) ==
    IF s = "fallback" THEN Ok(FallbackDict(task), 0)
    ELSE IF s # "direct" /\ Candidate(s, text) = None THEN Fail
    ELSE Loads(Candidate(s, text))

\* C3: the cascade tries direct parse, last-object scan, first-object scan,
\* truncation repair and fallback in this order, each at most once and only
\* after every earlier one failed, and returns the value of the first that
\* succeeds
C3_CascadeOrder ==
    task = "patient" =>
        /\ IsPrefix(tried, CascadeOrder)
        /\ \A n \in 1..Len(tried) : n < Len(tried) \/ ~Returned
              => ~StrategyResult(tried[n]).ok
        /\ Returned =>
              /\ tried # <<>> /\ via = tried[Len(tried)]
              /\ StrategyResult(via).ok
              /\ JEq(parsed, StrategyResult(via).v)

\* the repair strategy was reached and succeeded, after three failures
C3_Witness ==
    /\ task = "patient" /\ pc = "run" /\ via = "repair"
    /\ tried = <<"direct", "last", "first", "repair">>
    /\ HasKey(parsed, K("a"))

\* C4: a well-formed object inside a complete thinking block or a code fence
\* normalizes to exactly the object, and the direct parse recovers it
C4_WrappedNormalizesToObject ==
    \A o \in Objects :
        raw \in InThinkingBlock(o) \cup InFence(o) /\ task \in {"patient", "soap"} =>
            /\ Normalized => text = o
            /\ Returned => via = "direct" /\ JEq(parsed, Loads(o).v)

\* raw is one well-formed object and nothing else
IsObjectText(s) ==
    /\ s # <<>> /\ s[1] = LB /\ s[Len(s)] = RB
    /\ Loads(s).ok /\ Loads(s).v.k = "obj"

\* C5: normalizing then recovering a text that is already one well-formed
\* object gives the value its direct parse gives, whatever its strings hold
C5_ObjectUnchanged ==
    IsObjectText(raw) /\ Returned => JEq(parsed, Loads(raw).v)

\* C6: normalizing a normalized text changes nothing
C6_NormalizeIdempotent == Normalized => Normalize(task, text) = text

TagCount(s) == Cardinality({n \in 1..Len(s) : s[n] = TAG})

FlagsAfter(fl, c) ==
    IF fl.esc THEN [ins |-> fl.ins, esc |-> FALSE]
    ELSE IF c = BS /\ fl.ins THEN [ins |-> TRUE, esc |-> TRUE]
    ELSE IF c = QT THEN [ins |-> ~fl.ins, esc |-> FALSE]
    ELSE [ins |-> fl.ins, esc |-> FALSE]

\* the flags before each of the positions a..b of s and after position b,
\* starting in fl before position a (halving keeps the evaluation shallow)
RECURSIVE FlagsOver(_, _, _, _)
FlagsOver(s, a, b, fl) ==
    IF a = b THEN [before |-> <<fl.ins>>, end |-> FlagsAfter(fl, s[a])]
    ELSE LET mid == (a + b) \div 2
             left == FlagsOver(s, a, mid, fl)
             right == FlagsOver(s, mid + 1, b, left.end)
         IN  [before |-> left.before \o right.before, end |-> right.end]

\* InString(s)[n]: position n of s lies inside a string, a backslash inside a
\* string taking the next character with it; position Len(s) + 1 is the end
InString(s) ==
    IF s = <<>> THEN <<FALSE>>
    ELSE LET r == FlagsOver(s, 1, Len(s), [ins |-> FALSE, esc |-> FALSE])
         IN  Append(r.before, r.end.ins)

\* how many times c stands outside every string of s
Outside(s, c) ==
    LET f == InString(s)
    IN  Cardinality({n \in 1..Len(s) : s[n] = c /\ ~f[n]})

\* {"summary": "see your doctor
ExampleTruncated == Slice(ExampleObject, 1, Len(ExampleObject) - 2)

\* C8: truncation repair scans from the first brace, counts open braces and
\* brackets outside strings, and appends a quote when the text ends inside a
\* string, then one bracket per open bracket, then one brace per open brace;
\* it yields nothing when nothing is open; the cut-off summary object of the
\* example is recovered by it with its text
C8_TruncationRepair ==
    /\ Normalized =>
          LET start == Find(text, LB, 1)
              snippet == From(text, start)
              braces == Outside(snippet, LB) - Outside(snippet, RB)
              brackets == Outside(snippet, LK) - Outside(snippet, RK)
              quote == IF InString(snippet)[Len(snippet) + 1] THEN <<QT>> ELSE <<>>
          IN  IF start = 0 \/ (braces = 0 /\ brackets = 0)
              THEN RepairTruncatedJson(text) = None
              ELSE RepairTruncatedJson(text)
                      = snippet \o quote \o Repeat(RK, brackets) \o Repeat(RB, braces)
    /\ task = "patient" /\ raw = ExampleTruncated /\ Returned =>
          /\ via = "repair"
          /\ JEq(parsed, JObj(<<Pair("summary", JStr(<<"see", SP, "your", SP, "doctor">>))>>))

\* the example has been repaired and parsed
C8_Witness ==
    task = "patient" /\ raw = ExampleTruncated /\ pc = "run" /\ via = "repair"

\* the string-typed fields of the record of task t
StringFields(t) ==
    IF t = "soap" THEN SoapFields
    ELSE IF t = "ddx" THEN <<"reasoning_summary">>
    ELSE <<"summary", "next_steps_suggestion">>

\* the string-typed fields of one diagnosis entry
EntryStringFields == <<"condition", "likelihood", "supporting_features", "against_features">>

IsStrList(v) == v.k = "arr" /\ \A n \in 1..Len(v.v) : v.v[n].k = "str"

\* the items of a list of strings joined by a semicolon and a space
Joined(v) == JStr(Concat(<<";", SP>>, [n \in 1..Len(v.v) |-> v.v[n].v]))

\* C9: in every task, a string field the model gave as a list of strings holds
\* the items joined by a semicolon and a space
C9_ListJoined ==
    pc = "done" /\ parsed.k = "obj" /\ Missing("error") =>
        /\ \A n \in 1..Len(StringFields(task)) :
              LET given == Get(parsed, K(StringFields(task)[n]), JNull)
              IN  IsStrList(given)
                    => out.status = "ok" /\ JEq(Field(StringFields(task)[n]), Joined(given))
        /\ LET d == Get(parsed, K("diagnoses"), JArr(<<>>))
           IN  task = "ddx" /\ d.k = "arr" =>
                  \A i \in 1..Len(Take(d.v, Cap)) : \A n \in 1..Len(EntryStringFields) :
                      LET given == Get(d.v[i], K(EntryStringFields[n]), JNull)
                      IN  d.v[i].k = "obj" /\ IsStrList(given)
                            => /\ out.status = "ok"
                               /\ JEq(Get(Field("diagnoses").v[i], K(EntryStringFields[n]), JNull),
                                      Joined(given))

\* C10: whatever shape the values of the parsed object have, null included,
\* run builds the record and ends in no type or validation error
C10_RecordAlwaysBuilt == pc = "done" /\ parsed.k = "obj" => out.status = "ok"

\* C11: a capped list field (diagnoses, key_points) given n parsed items holds
\* min(n, 5) entries, and they are the first min(n, 5) items in their order;
\* a malformed item past the cap does not keep the record from being built
C11_CapKeepsFirstFive ==
    /\ pc = "done" /\ out.status = "ok" /\ task = "patient" =>
          LET given == Get(parsed, K("key_points"), JArr(<<>>))
              built == Field("key_points").v
          IN  given.k = "arr" =>
                /\ Len(built) = (IF Len(given.v) < 5 THEN Len(given.v) ELSE 5)
                /\ \A i \in 1..Len(built) : JEq(built[i], given.v[i])
    /\ pc = "done" /\ out.status = "ok" /\ task = "ddx" =>
          LET given == Get(parsed, K("diagnoses"), JArr(<<>>))
              built == Field("diagnoses").v
          IN  given.k = "arr" =>
                /\ Len(built) = (IF Len(given.v) < 5 THEN Len(given.v) ELSE 5)
                /\ \A i \in 1..Len(built) :
                      /\ JEq(Get(built[i], K("condition"), JNull),
                             Get(given.v[i], K("condition"), JStr(K("Unknown"))))
                      /\ ~HasKey(given.v[i], K("rank"))
                            => Get(built[i], K("rank"), JNull) = RankOf(i)
    /\ pc = "done" /\ raw \in CapTexts(task) => out.status = "ok"

\* seven diagnoses were given and five are returned
C11_Witness ==
    /\ pc = "done" /\ out.status = "ok" /\ task = "ddx"
    /\ Len(Get(parsed, K("diagnoses"), JArr(<<>>)).v) = 7
    /\ Len(Field("diagnoses").v) = 5

\* C12: a parsed SOAP object holding the key "error" gives the note whose
\* subjective, objective and assessment are "[Refused]" and whose
\* plan_suggestions is the value of "error", whatever other keys it holds;
\* without the key no field is "[Refused]"
C12_RefusalNote ==
    pc = "done" /\ task = "soap" /\ parsed.k = "obj" =>
        IF HasKey(parsed, K("error"))
        THEN /\ out.status = "ok"
             /\ \A w \in {"subjective", "objective", "assessment"} : JEq(Field(w), SoapRefused)
             /\ JEq(Field("plan_suggestions"), Get(parsed, K("error"), JNull))
        ELSE out.status = "ok" => \A n \in 1..Len(SoapFields) : ~JEq(Field(SoapFields[n]), SoapRefused)

----------------------------------------------------------------------------
(* Properties of the guideline agent *)

\* the one passage retrieved has been classified: entries holds its candidates
PassageClassified == gpc \in {"aggregate", "done"} /\ Len(chunks) = 1

\* the line is a bullet line, not taken as a header
IsBulletLine(line) == StartsWith(Strip(line), <<"-", SP>>) /\ ~IsHeader(Strip(line))

\* the text of a bullet line: what follows the marker, whitespace collapsed
BulletText(line) == Strip(CollapseWhitespace(From(Strip(line), 3)))

\* the text holds the word should
HoldsShould(t) == Search(<<Alt(TRUE, Lit(<<"s", "h", "o", "u", "l", "d">>), TRUE)>>, t)

\* the passage is the header MANAGEMENT GUIDELINES and one bullet line of at
\* least 25 characters that holds the word should
HeaderAndShouldBullet ==
    /\ Len(lines) = 2
    /\ lines[1] = ManagementHeader
    /\ IsBulletLine(lines[2])
    /\ Len(lines[2]) >= MinBulletLen
    /\ HoldsShould(lines[2])

\* C13 as stated: a passage of the header MANAGEMENT GUIDELINES and one bullet
\* line of at least 25 characters holding the word should gives exactly one
\* candidate, of category Management and confidence Direct
C13_OneCandidateAsStated ==
    PassageClassified /\ HeaderAndShouldBullet =>
        /\ Len(entries) = 1
        /\ entries[1].category = "Management"
        /\ entries[1].confidence = "Direct"

\* C13: such a passage gives exactly one candidate, of category Management
\* and confidence Direct, when the text of the bullet (after the marker,
\* whitespace collapsed) has at least 25 characters and ends in neither a
\* lowercase letter nor a comma; otherwise it gives none
C13_OneCandidate ==
    PassageClassified /\ HeaderAndShouldBullet =>
        LET t == BulletText(lines[2])
        IN  IF Len(t) >= MinBulletLen /\ ~IsLower(t[Len(t)]) /\ t[Len(t)] # ","
            THEN /\ Len(entries) = 1
                 /\ entries[1].category = "Management"
                 /\ entries[1].confidence = "Direct"
                 /\ entries[1].recommendation = t
            ELSE entries = <<>>

\* the bullet holds may, consider and should, and its candidate is Direct
C13_Witness ==
    /\ PassageClassified /\ HeaderAndShouldBullet
    /\ Search(ConfidenceInferred, lines[2])
    /\ Len(entries) = 1 /\ entries[1].confidence = "Direct"

\* line n of the passage is a header
HeaderAt(n) == Strip(lines[n]) # <<>> /\ IsHeader(Strip(lines[n]))

\* the header that opens the section of line n, 0 when no header precedes it
SectionHeader(n) ==
    LET hs == {h \in 1..(n - 1) : HeaderAt(h)}
    IN  IF hs = {} THEN 0 ELSE CHOOSE h \in hs : \A h2 \in hs : h2 <= h

\* the lines before line n end in an excluded section
ExcludedBefore(n) ==
    SectionHeader(n) # 0 /\ Search(SkipSection, Strip(lines[SectionHeader(n)]))

\* the flush filter keeps the bullet: long enough and not cut off
Actionable(bullet) ==
    LET t == Strip(CollapseWhitespace(bullet))
    IN  Len(t) >= MinBulletLen /\ ~IsLower(t[Len(t)]) /\ t[Len(t)] # ","

\* C14: no candidate is emitted from a bullet of an excluded section (one that
\* starts after a header matching the excluded-topic pattern and before the
\* next header), and a bullet pending when an excluded header arrives is
\* judged under the skip state of the section it started in
C14_ExcludedSection ==
    [][gpc = "scan" =>
          /\ Len(entries') > Len(entries) => ~ExcludedBefore(line_no)
          /\ (/\ line_no <= Len(lines)
              /\ HeaderAt(line_no)
              /\ Search(SkipSection, Strip(lines[line_no]))
              /\ pending_bullet # None
              /\ Actionable(pending_bullet)
              /\ ~ExcludedBefore(line_no))
                => Len(entries') = Len(entries) + 1]_vars

\* of a bullet before the excluded header and a bullet after it, the first
\* alone became a candidate
C14_Witness ==
    /\ PassageClassified
    /\ lines = <<ShouldBullet, ExcludedHeader, ShouldBullet>>
    /\ Len(entries) = 1

\* C15: a candidate is emitted with the category that was active when its
\* bullet line was read: reading the bullet line leaves the category alone, no
\* continuation or paragraph line changes it while the bullet is pending, and
\* the flush, at a header too, emits with the category held before the step
C15_CategoryFixedAtBullet ==
    [][gpc = "scan" =>
          /\ (/\ line_no <= Len(lines)
              /\ ~HeaderAt(line_no)
              /\ pending_bullet # None \/ IsBulletLine(lines[line_no]))
                => current_category' = current_category
          /\ Len(entries') > Len(entries)
                => entries'[Len(entries')].category = current_category]_vars

\* the bullet read under Monitoring is emitted as Monitoring by the header
\* that makes Workup the category
C15_Witness ==
    /\ PassageClassified
    /\ lines = <<NumberedMonitoring, ShouldBullet, MarkdownWorkup>>
    /\ Len(entries) = 1
    /\ entries[1].category = "Monitoring"
    /\ current_category = "Workup"

RECURSIVE CandidatesUpTo(_)
\* the candidate lists of the first n passages, one after the other
CandidatesUpTo(n) ==
    IF n = 0 THEN <<>> ELSE CandidatesUpTo(n - 1) \o ParseChunk(chunks[n])

\* the first 80 characters of the text of a candidate, in lower case
NormalizedKey(e) ==
    LET t == e.recommendation
    IN  [n \in 1..(IF Len(t) < 80 THEN Len(t) ELSE 80) |-> LowerOf(t[n])]

\* the positions of all whose key occurs at no earlier position
FirstOccurrences(all) ==
    {i \in 1..Len(all) : \A j \in 1..(i - 1) : NormalizedKey(all[j]) # NormalizedKey(all[i])}

\* C16: the recommendations returned are the candidates of the passages, in
\* passage order, without every candidate whose normalized key occurred
\* earlier: the keys are pairwise distinct, the first occurrences keep their
\* order, and a repeated text keeps the source label of its first passage
C16_FirstOccurrencesKept ==
    gpc = "done" =>
        LET all == CandidatesUpTo(Len(chunks))
            firsts == FirstOccurrences(all)
            recs == guidelines.recommendations
            nth(k) == CHOOSE i \in firsts : Cardinality({j \in firsts : j < i}) = k - 1
        IN  /\ Len(recs) = Cardinality(firsts)
            /\ \A k \in 1..Len(recs) : recs[k] = all[nth(k)]
            /\ \A k \in 1..Len(recs) : \A m \in 1..Len(recs) :
                  NormalizedKey(recs[k]) = NormalizedKey(recs[m]) => k = m

\* two passages of different sources gave the same text in different case and
\* spacing, and the one recommendation returned names the first source
C16_Witness ==
    /\ gpc = "done"
    /\ Len(chunks) = 2
    /\ Len(raw_entries) = 2
    /\ raw_entries[1].source # raw_entries[2].source
    /\ raw_entries[1].recommendation # raw_entries[2].recommendation
    /\ guidelines.recommendations = <<raw_entries[1]>>

\* the distinct source labels of the entries es, in order of first appearance
SourcesInOrder(es) ==
    LET firsts == {i \in 1..Len(es) : \A j \in 1..(i - 1) : es[j].source # es[i].source}
        nth(k) == CHOOSE i \in firsts : Cardinality({j \in firsts : j < i}) = k - 1
    IN  [k \in 1..Cardinality(firsts) |-> es[nth(k)].source]

\* C17: the source labels returned are the distinct source labels of the
\* recommendations returned, each once, in order of first appearance; a
\* passage none of whose candidates is returned adds no label
C17_SourcesOfSurvivors ==
    gpc = "done" =>
        guidelines.retrieved_sources = SourcesInOrder(guidelines.recommendations)

\* C18: with no passage, because retrieve returns an empty sequence or because
\* no retriever is configured, run returns a valid record with no
\* recommendation and no source label, and raises nothing
C18_NoPassages ==
    gpc = "done" /\ (~retriever.configured \/ retriever.returns = <<>>) =>
        /\ guidelines.status = "ok"
        /\ guidelines.recommendations = <<>>
        /\ guidelines.retrieved_sources = <<>>
        /\ guidelines.raw = <<>>

\* run has returned with no retriever configured
C18_Witness ==
    gpc = "done" /\ ~retriever.configured /\ conditions # <<>> /\ guidelines.status = "ok"

\* what thread t leaves in the file at path when it runs alone
WrittenAlone(t, path) ==
    IF path = PatientPath THEN DumpText(requests[t[1]].raw)
    ELSE IF path = ChunksPath
    THEN ChunksDump(RagQuery(<<>>), Retrieved(requests[t[1]].retriever))
    ELSE OutputDump(Unique(CandidatesOf(Retrieved(requests[t[1]].retriever))))

\* C19: invocations that overlap in time, of two requests in flight or of the
\* two tasks of one request, never write a common location, and what each has
\* written when it returns is what it writes when it runs alone
C19_NoCommonLocation ==
    /\ \A t1 \in Threads : \A t2 \in Threads :
          t1 # t2 => threads[t1].wrote \cap threads[t2].wrote = {}
    /\ \A t \in Threads :
          threads[t].pc = "done" =>
              \A path \in threads[t].wrote : files[path] = WrittenAlone(t, path)

\* the brace positions of the normalized text whose balanced span parses
ParseablePositions ==
    {p \in 1..Len(text) :
        text[p] = LB /\ SpanFrom(text, p) # None /\ Loads(SpanFrom(text, p)).ok}

\* C20: the last-object strategy goes through the brace positions from the
\* last to the first, passes over a position whose span is missing or does not
\* parse, and succeeds with the span of the last position whose span parses;
\* so an object between two unparseable brace groups is recovered
C20_LastObjectTriesEarlier ==
    (/\ task = "patient"
     /\ \E n \in 1..Len(tried) : tried[n] = "last"
     /\ ParseablePositions # {})
        => LET p == CHOOSE q \in ParseablePositions : \A q2 \in ParseablePositions : q2 <= q
           IN  via = "last" /\ JEq(parsed, Loads(SpanFrom(text, p)).v)

\* the depth after each position of snippet: opening minus closing braces
\* that stand outside the strings of snippet
DepthAfter(snippet) ==
    LET f == InString(snippet)
    IN  [n \in 1..Len(snippet) |->
            Cardinality({m \in 1..n : snippet[m] = LB /\ ~f[m]})
              - Cardinality({m \in 1..n : snippet[m] = RB /\ ~f[m]})]

\* the shortest span of s from start whose braces outside strings are
\* balanced, None when there is none
ShortestBalanced(s, start) ==
    LET d == DepthAfter(From(s, start))
        ends == {n \in 1..Len(d) : d[n] = 0}
    IN  IF ends = {} THEN None
        ELSE Slice(s, start, start - 1 + CHOOSE n \in ends : \A m \in ends : n <= m)

\* a brace scan has just run on the normalized text
BraceScanned ==
    tried # <<>> /\ tried[Len(tried)] \in {"first", "last"}

\* C21: the scan from an opening brace returns the shortest span from there
\* whose braces outside strings are balanced, a backslash inside a string
\* taking the next character with it, and nothing when the text ends before
\* the depth is back at zero
C21_ShortestBalancedSpan ==
    BraceScanned =>
        /\ \A p \in 1..Len(text) : text[p] = LB => SpanFrom(text, p) = ShortestBalanced(text, p)
        /\ tried[Len(tried)] = "first" /\ Find(text, LB, 1) # 0 =>
              Candidate("first", text) = ShortestBalanced(text, Find(text, LB, 1))

\* the first-object scan has passed over a closing brace and an escaped quote
\* inside a string and stopped before the end of the text
C21_Witness ==
    /\ task = "patient" /\ via = "first"
    /\ \E c \in {<<RB>>, <<BS, QT>>} :
          text = ObjText(<<"a">>, <<StrText(c)>>) \o <<LB, "a", RB>>

\* the category of the first pattern of the table that matches the line, the
\* category before when none matches
FirstMatchingCategory(line, before) ==
    LET matching == {n \in 1..Len(HeaderCategory) : Search(HeaderCategory[n].pattern, line)}
    IN  IF matching = {} THEN before
        ELSE HeaderCategory[CHOOSE n \in matching : \A m \in matching : n <= m].cat

\* C22: a header line flushes the pending bullet under the old state, then
\* sets the category to that of the first matching pattern in the order
\* Workup, Management, Monitoring, Follow-up (unchanged when none matches),
\* whether or not the header is an excluded one, and sets skip_section
\* exactly when the header matches the excluded-topic pattern
C22_HeaderReclassifies ==
    [][HeaderLine =>
          /\ [n \in 1..Len(HeaderCategory) |-> HeaderCategory[n].cat]
                = <<"Workup", "Management", "Monitoring", "Follow-up">>
          /\ entries' = Flush(ScanState, CurrentLabel)
          /\ current_category' = FirstMatchingCategory(Strip(lines[line_no]), current_category)
          /\ skip_section' = Search(SkipSection, Strip(lines[line_no]))]_vars

\* the pending bullet with its whitespace runs collapsed, trimmed
CollapsedPending == Strip(CollapseWhitespace(pending_bullet))

\* the pending bullet passes the flush filter
PassesFilter ==
    /\ pending_bullet # None
    /\ Len(CollapsedPending) >= 25
    /\ \A n \in 1..Len(Lowers) : CollapsedPending[Len(CollapsedPending)] # Lowers[n]
    /\ CollapsedPending[Len(CollapsedPending)] # ","
    /\ ~skip_section

\* C23: a flush emits the pending bullet exactly when its collapsed, trimmed
\* text has at least 25 characters, ends in neither a lowercase letter nor a
\* comma, and skip_section is false at that time; the candidate carries the
\* collapsed text, the source label of the passage and the category at flush
\* time; and the flushed bullet is pending no longer
C23_FlushFilter ==
    [][HeaderLine \/ BulletLine \/ EndOfPassage =>
          /\ IF PassesFilter
             THEN /\ Len(entries') = Len(entries) + 1
                  /\ SubSeq(entries', 1, Len(entries)) = entries
                  /\ entries'[Len(entries')].recommendation = CollapsedPending
                  /\ entries'[Len(entries')].source = CurrentLabel
                  /\ entries'[Len(entries')].category = current_category
             ELSE entries' = entries
          /\ HeaderLine => pending_bullet' = None
          /\ BulletLine => pending_bullet' = Strip(From(Strip(lines[line_no]), 3))
          /\ EndOfPassage => gpc' # "scan"]_vars

\* a bullet with a run of spaces was flushed by a header and emitted with the
\* run collapsed, and no bullet is pending
C23_Witness ==
    /\ gpc = "scan" /\ line_no = 3 /\ pending_bullet = None
    /\ lines[1] = ConsiderBullet /\ lines[2] = ManagementHeader
    /\ Len(entries) = 1
    /\ entries[1].recommendation = <<"C", "o", "n", "s", "i", "d", "e", "r", " ", "r", "e", "f", "e", "r", "r", "a", "l", " ", "t", "o", " ", "a", " ", "t", "r", "a", "n", "s", "p", "l", "a", "n", "t", " ", "c", "e", "n", "t", "r", "e", ".">>

\* the line due is neither a header nor a bullet, and the scan steps over it
OtherLineStep ==
    /\ LineDue
    /\ ~IsHeader(Strip(lines[line_no]))
    /\ ~StartsWith(Strip(lines[line_no]), <<"-", SP>>)
    /\ line_no' = line_no + 1

\* what a line that is neither header nor bullet does, indented telling
\* whether it counts as indented
OtherLineEffect(indented) ==
    LET trimmed == Strip(lines[line_no])
    IN  /\ entries' = entries
        /\ skip_section' = skip_section
        /\ IF trimmed = <<>>
           THEN UNCHANGED <<pending_bullet, current_category>>
           ELSE IF pending_bullet # None /\ indented
           THEN /\ pending_bullet' = pending_bullet \o <<SP>> \o trimmed
                /\ UNCHANGED current_category
           ELSE IF pending_bullet = None
           THEN /\ current_category' = FirstMatchingCategory(trimmed, current_category)
                /\ UNCHANGED pending_bullet
           ELSE UNCHANGED <<pending_bullet, current_category>>

RECURSIVE Recover(_, _, _)
\* what the cascade of task t recovers from the normalized text txt from
\* strategy s on: the value of the first strategy that parses, Fail when the
\* default dict is all that is left
Recover(t, txt, s) ==
    IF s = "fallback" THEN Fail
    ELSE LET c == Candidate(s, txt)
             r == IF s # "direct" /\ c = None THEN Fail ELSE Loads(c)
         IN  IF r.ok THEN r ELSE Recover(t, txt, NextStrategy(t, s))

\* what task t recovers from the raw completion r
Recovered(t, r) == Recover(t, Normalize(t, r), "direct")

\* C25: the three tasks apply the same normalizer and the same cascade: from
\* every raw text one task recovers a value exactly when the other two do,
\* and the same value; and no task hands the content of a complete thinking
\* block to its parsers
C25_SameRecovery ==
    /\ pc = "done" =>
          \A t \in Tasks :
              /\ Recovered(t, raw).ok <=> via # "fallback"
              /\ via # "fallback" => JEq(Recovered(t, raw).v, parsed)
    /\ pc = "done" =>
          \A o \in PlainObjects : \A r \in Reasonings :
              raw = <<TAG>> \o r \o <<TAG, NL>> \o o => \A t \in Tasks : Normalize(t, raw) = o

\* the records finish has written for the id of request r
FinishesOf(r) ==
    {n \in 1..Len(audit_log) : audit_log[n].record_id = analyze[r].record_id}

\* request r is still in flight: start was called and the handler has not ended
InFlight(r) == analyze[r].pc = "await"

\* finish was called at most once for every request, with the response when
\* the pipeline succeeded and with an error text otherwise
FinishedAsDue ==
    \A r \in Requests :
        /\ Cardinality(FinishesOf(r)) <= 1
        /\ \A n \in FinishesOf(r) :
              /\ audit_log[n].response <=> analyze[r].pc = "returned"
              /\ audit_log[n].error # NoError <=> analyze[r].pc \in {"failed", "abandoned"}

\* C26: for every request on which start was called, finish is eventually
\* called exactly once with its record id, with the response when the
\* pipeline succeeded and with an error text when an agent raised or the
\* request was abandoned; and the pending table holds exactly the ids of the
\* requests in flight
C26_AuditCompletes ==
    /\ \A r \in Requests :
          [](analyze[r].pc # "idle" => <>(Cardinality(FinishesOf(r)) = 1))
    /\ [](FinishedAsDue)
    /\ [](pending = {analyze[r].record_id : r \in {q \in Requests : InFlight(q)}})

\* the kinds a line can be taken for, in the order the classifier asks
KindOrder == <<"header", "bullet", "continuation", "paragraph">>

\* the line due meets the condition of kind k
MeetsKind(k) ==
    LET line == lines[line_no]
    IN  IF k = "header" THEN IsHeader(Strip(line))
        ELSE IF k = "bullet" THEN StartsWith(Strip(line), <<"-", SP>>)
        ELSE IF k = "continuation" THEN pending_bullet # None /\ StartsWith(line, <<SP, SP>>)
        ELSE TRUE

\* the first kind, in the order, whose condition the line due meets
FirstKind ==
    KindOrder[CHOOSE n \in 1..4 : MeetsKind(KindOrder[n]) /\ \A m \in 1..(n - 1) : ~MeetsKind(KindOrder[m])]

\* C27: every line that is not blank takes exactly one transition, that of
\* the first of header, bullet, continuation, paragraph whose condition it
\* meets: a header is handled as a header also when it begins with the bullet
\* marker or is indented after a bullet, and a line beginning with the bullet
\* marker as a new bullet also when it is indented after a bullet
C27_OneTransitionInOrder ==
    [][LineDue /\ Strip(lines[line_no]) # <<>> /\ line_no' = line_no + 1 =>
          /\ HeaderLine <=> FirstKind = "header"
          /\ BulletLine <=> FirstKind = "bullet"
          /\ ContinuationLine <=> FirstKind = "continuation"
          /\ ParagraphLine <=> FirstKind = "paragraph"
          /\ FirstKind = "header" =>
                pending_bullet' = None /\ skip_section' = Search(SkipSection, Strip(lines[line_no]))
          /\ FirstKind = "bullet" =>
                pending_bullet' = Strip(From(Strip(lines[line_no]), 3))
          /\ FirstKind = "continuation" =>
                pending_bullet' = pending_bullet \o <<SP>> \o Strip(lines[line_no])
          /\ FirstKind = "paragraph" => pending_bullet' = pending_bullet]_vars

\* after a bullet, a header in capitals that begins with the bullet marker was
\* handled as a header: the bullet was flushed and nothing is pending
C27_Witness ==
    /\ gpc = "scan" /\ line_no = 3
    /\ lines[1] = ShouldBullet /\ lines[2] = MarkedHeader
    /\ pending_bullet = None /\ Len(entries) = 1

\* C28: the text before the first thinking delimiter is never discarded: with
\* one delimiter that is never closed, the text before it is kept at the head
\* of the stripped text, whether or not a brace follows the delimiter
C28_PrefixKept ==
    task \in {"patient", "soap"} /\ pc # "strip" /\ TagCount(raw) = 1 =>
        IsPrefix(Slice(raw, 1, Find(raw, TAG, 1) - 1), stripped)

\* the opening brackets and braces of s, outside its strings, that nothing
\* after them closes: the nesting depth never falls below theirs again
StillOpen(s) ==
    LET f == InString(s)
        depth == [n \in 0..Len(s) |->
                    Cardinality({m \in 1..n : s[m] \in {LB, LK} /\ ~f[m]})
                      - Cardinality({m \in 1..n : s[m] \in {RB, RK} /\ ~f[m]})]
    IN  {p \in 1..Len(s) :
            /\ s[p] \in {LB, LK} /\ ~f[p]
            /\ \A q \in p..Len(s) : depth[q] >= depth[p]}

\* the closers of s innermost first: a quote when s ends inside a string,
\* then the closer of every opener still open, the last opened first
InnermostFirst(s) ==
    LET open == StillOpen(s)
        opener(k) == CHOOSE p \in open : Cardinality({q \in open : q > p}) = k - 1
    IN  (IF InString(s)[Len(s) + 1] THEN <<QT>> ELSE <<>>)
          \o [k \in 1..Cardinality(open) |-> IF s[opener(k)] = LB THEN RB ELSE RK]

\* the normalized text is a well-formed object cut off where closing what is
\* open gives an object again: after a complete value or inside a string value
CutOffObject ==
    /\ text # <<>> /\ text[1] = LB
    /\ \E o \in Objects : IsPrefix(text, o) /\ text # o
    /\ InString(text)[Len(text) + 1] \/ text[Len(text)] \in {DG, NUL, QT, RK, RB}
    /\ Loads(text \o InnermostFirst(text)).ok

\* C29: on a well-formed object cut off after a complete value or inside a
\* string value, truncation repair appends the closers of the open string,
\* arrays and objects innermost first, so that the repaired text is well
\* nested and parses, also when the cut falls inside an object that is an
\* element of an array
C29_RepairWellNested ==
    task = "patient" /\ Normalized /\ CutOffObject =>
        /\ RepairTruncatedJson(text) = text \o InnermostFirst(text)
        /\ Loads(RepairTruncatedJson(text)).ok

\* the brace positions of the normalized text that start a balanced span
BalancedPositions == {p \in 1..Len(text) : text[p] = LB /\ SpanFrom(text, p) # None}

\* the span from p lies inside the span from q
NestedIn(p, q) ==
    q < p /\ p + Len(SpanFrom(text, p)) <= q + Len(SpanFrom(text, q))

\* C30: from prose followed by one well-formed object, recovery returns that
\* whole object, also when it holds nested objects: the span the last-object
\* strategy returns is never nested inside another balanced span of the text
C30_OutermostObject ==
    /\ task = "patient" /\ Returned =>
          \A o \in Objects : text = <<"a", SP>> \o o => JEq(parsed, Loads(o).v)
    /\ task = "patient" /\ Normalized /\ BalancedPositions # {} =>
          LET last == CHOOSE p \in BalancedPositions : \A q \in BalancedPositions : q <= p
          IN  /\ ExtractJsonFromLastBrace(text) = SpanFrom(text, last)
              /\ \A q \in BalancedPositions : ~NestedIn(last, q)
====
